---- MODULE Spec2Model ----
(***************************************************************************)
(* Model of the note tools of disco-sui (src/src/lib/tools, TagManagement- *)
(* Tool in src/unnamed/part_001): a vault of markdown notes on a file      *)
(* system, mutated by the note, tag and folder tools.                      *)
(*                                                                         *)
(* Paths, link identifiers and note bodies are strings, handled character  *)
(* by character as the code's string and RegExp calls handle them.  The    *)
(* frontmatter of a note is a function from keys to values; gray-matter    *)
(* (an external library) is modelled as the parser that yields             *)
(* {frontmatter, body}, so a file is stored as the record [fm, body].      *)
(***************************************************************************)
EXTENDS Integers, Sequences, FiniteSets, TLC

(***************************************************************************)
(* Bounds of the model.                                                    *)
(***************************************************************************)
MaxSteps == 2
MaxClock == 2
MaxFault == 3

(***************************************************************************)
(* Strings.                                                                *)
(***************************************************************************)
Ch(s, i) == SubSeq(s, i, i)

StartsWithAt(s, i, pre) ==
    /\ i + Len(pre) - 1 <= Len(s)
    /\ SubSeq(s, i, i + Len(pre) - 1) = pre

StartsWith(s, pre) == StartsWithAt(s, 1, pre)

Drop(s, n) == SubSeq(s, n + 1, Len(s))

RECURSIVE IndexFrom(_, _, _)
\* first index >= i where sub occurs in s, 0 when there is none
IndexFrom(s, sub, i) ==
    IF i + Len(sub) - 1 > Len(s) THEN 0
    ELSE IF StartsWithAt(s, i, sub) THEN i
    ELSE IndexFrom(s, sub, i + 1)

RECURSIVE Split(_, _)
\* String.prototype.split(sep) for a one-character separator
Split(s, sep) ==
    LET k == IndexFrom(s, sep, 1)
    IN  IF k = 0 THEN <<s>>
        ELSE <<SubSeq(s, 1, k - 1)>> \o Split(Drop(s, k), sep)

RECURSIVE JoinWith(_, _)
\* Array.prototype.join(sep)
JoinWith(parts, sep) ==
    IF Len(parts) = 0 THEN ""
    ELSE IF Len(parts) = 1 THEN parts[1]
    ELSE parts[1] \o sep \o JoinWith(Tail(parts), sep)

(***************************************************************************)
(* node's path module (posix).                                             *)
(***************************************************************************)
RECURSIVE NormSegs(_, _, _)
\* path.normalize on the segments: drops "" and ".", resolves ".."
NormSegs(segs, acc, abs) ==
    IF Len(segs) = 0 THEN acc
    ELSE LET h == Head(segs)
             t == Tail(segs)
         IN  IF h = "" \/ h = "." THEN NormSegs(t, acc, abs)
             ELSE IF h = ".." THEN
                  IF Len(acc) > 0 /\ acc[Len(acc)] # ".."
                  THEN NormSegs(t, SubSeq(acc, 1, Len(acc) - 1), abs)
                  ELSE IF abs THEN NormSegs(t, acc, abs)
                  ELSE NormSegs(t, Append(acc, ".."), abs)
             ELSE NormSegs(t, Append(acc, h), abs)

Normalize(p) ==
    LET abs  == StartsWith(p, "/")
        segs == NormSegs(Split(p, "/"), <<>>, abs)
    IN  IF abs THEN "/" \o JoinWith(segs, "/")
        ELSE IF Len(segs) = 0 THEN "."
        ELSE JoinWith(segs, "/")

\* path.join(a, b): empty arguments are skipped, the rest joined and normalized
PathJoin(a, b) ==
    IF a = "" THEN Normalize(b)
    ELSE IF b = "" THEN Normalize(a)
    ELSE Normalize(a \o "/" \o b)

\* path.dirname of a normalized path
Dirname(p) ==
    LET segs == Split(p, "/")
        n    == Len(segs)
    IN  IF p = "/" THEN "/"
        ELSE IF StartsWith(p, "/") THEN
             IF n = 2 THEN "/" ELSE JoinWith(SubSeq(segs, 1, n - 1), "/")
        ELSE IF n = 1 THEN "."
        ELSE JoinWith(SubSeq(segs, 1, n - 1), "/")

\* /\.md$/i
IsMd(p) ==
    /\ Len(p) >= 3
    /\ SubSeq(p, Len(p) - 2, Len(p)) \in {".md", ".MD", ".Md", ".mD"}

(***************************************************************************)
(* Link identifiers and the link-rewriting regular expressions.            *)
(***************************************************************************)
RECURSIVE ReplaceWs(_, _)
\* part.replace(/\s+/g, '_'): every run of blanks becomes one "_"
ReplaceWs(s, inRun) ==
    IF Len(s) = 0 THEN ""
    ELSE IF Head(s) = " "
         THEN (IF inRun THEN "" ELSE "_") \o ReplaceWs(Tail(s), TRUE)
         ELSE Head(s) \o ReplaceWs(Tail(s), FALSE)

MapReplaceWs(parts) == [k \in 1..Len(parts) |-> ReplaceWs(parts[k], FALSE)]

StripMd(p) == IF IsMd(p) THEN SubSeq(p, 1, Len(p) - 3) ELSE p

pathToWikiLink(filePath) ==
    JoinWith(MapReplaceWs(Split(StripMd(filePath), "/")), "/")

(* The identifier is spliced unescaped into the RegExp source after        *)
(* "\[\[".  Of the characters notes are named with in this model, "." and  *)
(* "+" are RegExp syntax ("." any character, "+" one or more of the        *)
(* previous atom); letters, digits, "_", "-", "/" and blanks are literals. *)
(* An atom is [c |-> character, lit |-> it came escaped, plus |-> it is    *)
(* followed by "+"].                                                       *)
RECURSIVE ParseAtoms(_, _)
ParseAtoms(src, acc) ==
    IF Len(src) = 0 THEN acc
    ELSE IF Head(src) = "+"
         THEN ParseAtoms(Tail(src),
                 [acc EXCEPT ![Len(acc)] = [@ EXCEPT !.plus = TRUE]])
         ELSE ParseAtoms(Tail(src),
                 Append(acc, [c |-> Head(src), lit |-> FALSE, plus |-> FALSE]))

OpenAtoms == << [c |-> "[", lit |-> TRUE, plus |-> FALSE],
                [c |-> "[", lit |-> TRUE, plus |-> FALSE] >>

\* "++" is a SyntaxError (nothing to repeat) thrown by new RegExp
RegexValid(src) == IndexFrom(src, "++", 1) = 0

AtomMatches(a, ch) == IF a.lit \/ a.c # "." THEN ch = a.c ELSE TRUE

RECURSIVE RunOf(_, _, _)
\* length of the longest run of characters from i that atom a matches
RunOf(a, text, i) ==
    IF i > Len(text) \/ ~AtomMatches(a, Ch(text, i)) THEN 0
    ELSE 1 + RunOf(a, text, i + 1)

RECURSIVE MatchEnds(_, _, _, _)
RECURSIVE PlusEnds(_, _, _, _, _)
\* the positions after a match of atoms k.. starting at i, in the order a
\* backtracking matcher tries them (greedy "+": longest run first)
MatchEnds(atoms, k, text, i) ==
    IF k > Len(atoms) THEN <<i>>
    ELSE IF atoms[k].plus
         THEN PlusEnds(atoms, k, text, i, RunOf(atoms[k], text, i))
         ELSE IF i <= Len(text) /\ AtomMatches(atoms[k], Ch(text, i))
              THEN MatchEnds(atoms, k + 1, text, i + 1)
              ELSE <<>>

PlusEnds(atoms, k, text, i, n) ==
    IF n = 0 THEN <<>>
    ELSE MatchEnds(atoms, k + 1, text, i + n) \o PlusEnds(atoms, k, text, i, n - 1)

RECURSIVE NotBracketRun(_, _)
\* [^\]]* : length of the run of characters other than "]" from i
NotBracketRun(text, i) ==
    IF i > Len(text) \/ Ch(text, i) = "]" THEN 0
    ELSE 1 + NotBracketRun(text, i + 1)

NoMatch == [hit |-> FALSE, end |-> 0, g1 |-> ""]

\* (\|[^\]]*)?\]\] at position e: the optional alias group, then "]]"
MoveTail(text, e) ==
    IF StartsWithAt(text, e, "|")
    THEN LET j == e + 1 + NotBracketRun(text, e + 1)
         IN  IF StartsWithAt(text, j, "]]")
             THEN [hit |-> TRUE, end |-> j + 2, g1 |-> SubSeq(text, e, j - 1)]
             ELSE NoMatch
    ELSE IF StartsWithAt(text, e, "]]")
         THEN [hit |-> TRUE, end |-> e + 2, g1 |-> ""]
         ELSE NoMatch

\* [^\]]*\]\] at position e
FolderTail(text, e) ==
    LET j == e + NotBracketRun(text, e)
    IN  IF StartsWithAt(text, j, "]]")
        THEN [hit |-> TRUE, end |-> j + 2, g1 |-> ""]
        ELSE NoMatch

RECURSIVE FirstMoveHit(_, _, _)
FirstMoveHit(text, ends, k) ==
    IF k > Len(ends) THEN NoMatch
    ELSE LET m == MoveTail(text, ends[k])
         IN  IF m.hit THEN m ELSE FirstMoveHit(text, ends, k + 1)

RECURSIVE FirstFolderHit(_, _, _)
FirstFolderHit(text, ends, k) ==
    IF k > Len(ends) THEN NoMatch
    ELSE LET m == FolderTail(text, ends[k])
         IN  IF m.hit THEN m ELSE FirstFolderHit(text, ends, k + 1)

\* new RegExp(`\\[\\[${oldLink}(\\|[^\\]]*)?\\]\\]`) tried at position i
MoveRegexAt(oldLink, text, i) ==
    FirstMoveHit(text, MatchEnds(ParseAtoms(oldLink, OpenAtoms), 1, text, i), 1)

\* new RegExp(`\\[\\[${oldPathPattern}[^\\]]*\\]\\]`) tried at position i
FolderRegexAt(oldPathPattern, text, i) ==
    FirstFolderHit(text,
        MatchEnds(ParseAtoms(oldPathPattern, OpenAtoms), 1, text, i), 1)

RECURSIVE MoveReplaceFrom(_, _, _, _)
\* content.replace(regex /g, `[[${newLink}$1]]`), scanning from i
MoveReplaceFrom(oldLink, newLink, text, i) ==
    IF i > Len(text) THEN ""
    ELSE LET m == MoveRegexAt(oldLink, text, i)
         IN  IF m.hit
             THEN "[[" \o newLink \o m.g1 \o "]]"
                    \o MoveReplaceFrom(oldLink, newLink, text, m.end)
             ELSE Ch(text, i) \o MoveReplaceFrom(oldLink, newLink, text, i + 1)

MoveReplace(oldLink, newLink, text) == MoveReplaceFrom(oldLink, newLink, text, 1)

\* match.replace(old, new) with a string pattern: the first literal occurrence
ReplaceFirst(s, old, new) ==
    LET k == IndexFrom(s, old, 1)
    IN  IF k = 0 THEN s
        ELSE SubSeq(s, 1, k - 1) \o new \o Drop(s, k + Len(old) - 1)

RECURSIVE FolderReplaceFrom(_, _, _, _)
\* content.replace(regex /g, match => match.replace(old, new)), from i
FolderReplaceFrom(old, new, text, i) ==
    IF i > Len(text) THEN ""
    ELSE LET m == FolderRegexAt(old, text, i)
         IN  IF m.hit
             THEN ReplaceFirst(SubSeq(text, i, m.end - 1), old, new)
                    \o FolderReplaceFrom(old, new, text, m.end)
             ELSE Ch(text, i) \o FolderReplaceFrom(old, new, text, i + 1)

FolderReplace(old, new, text) == FolderReplaceFrom(old, new, text, 1)

(***************************************************************************)
(* The file system: fs = [files, dirs].  files maps the normalized path of *)
(* every regular file to its parsed content [fm, body]; dirs is the set of *)
(* directories.  "/", "." (the working directory) and ".." always exist.   *)
(* A file system may carry a third field faultIn = n > 0: the n-th call    *)
(* from now on that changes it (mkdir, writeFile, unlink, rename, rm) is   *)
(* rejected by the operating system (no space, no permission) and changes  *)
(* nothing.  Without the field every call is served.  It may also carry a  *)
(* field denied: the paths whose readFile or readdir is rejected (no       *)
(* permission).  Without the field every path can be read.                 *)
(***************************************************************************)
RootDirs == {"/", ".", ".."}

DirExists(fs, d) == d \in fs.dirs \/ d \in RootDirs

FileExists(fs, p) == p \in DOMAIN fs.files

\* p lies strictly below directory d
Under(p, d) ==
    IF d = "." THEN /\ ~StartsWith(p, "/")
                    /\ p \notin {".", ".."}
                    /\ ~StartsWith(p, "../")
    ELSE IF d = "/" THEN StartsWith(p, "/") /\ p # "/"
    ELSE StartsWith(p, d \o "/")

RECURSIVE Ancestors(_)
\* d and the directories above it that mkdir {recursive: true} may create
Ancestors(d) == IF d \in RootDirs THEN {} ELSE {d} \cup Ancestors(Dirname(d))

Failure(fs) == [ok |-> FALSE, fs |-> fs, ret |-> <<>>]

\* the call now made is the one the operating system rejects
FaultDue(fs) == "faultIn" \in DOMAIN fs /\ fs.faultIn = 1

\* fs with the call now made counted
Spend(fs) ==
    IF "faultIn" \in DOMAIN fs /\ fs.faultIn > 0
    THEN [fs EXCEPT !.faultIn = @ - 1]
    ELSE fs

\* fs in which the n-th changing call fails
WithFault(fs, n) == [files |-> fs.files, dirs |-> fs.dirs, faultIn |-> n]

\* readFile(p) or readdir(p) is rejected
ReadDenied(fs, p) == "denied" \in DOMAIN fs /\ p \in fs.denied

\* fs in which the paths of D cannot be read
WithDenied(fs, D) == [files |-> fs.files, dirs |-> fs.dirs, denied |-> D]

Success(fs, ret) == [ok |-> TRUE, fs |-> fs, ret |-> ret]

\* fs.mkdir(d, {recursive: true})
Mkdirp(fs, d) ==
    IF FaultDue(fs) \/ \E a \in Ancestors(d) : FileExists(fs, a)
    THEN Failure(Spend(fs))
    ELSE Success([Spend(fs) EXCEPT !.dirs = @ \cup Ancestors(d)], <<>>)

\* fs.writeFile(p, content)
WriteFile(fs, p, doc) ==
    IF ~FaultDue(fs) /\ DirExists(fs, Dirname(p)) /\ ~DirExists(fs, p)
    THEN Success([Spend(fs) EXCEPT !.files =
                     [x \in DOMAIN fs.files \cup {p} |->
                         IF x = p THEN doc ELSE fs.files[x]]], <<>>)
    ELSE Failure(Spend(fs))

\* fs.unlink(p)
Unlink(fs, p) ==
    IF ~FaultDue(fs) /\ FileExists(fs, p)
    THEN Success([Spend(fs) EXCEPT !.files =
                     [x \in DOMAIN fs.files \ {p} |-> fs.files[x]]], <<>>)
    ELSE Failure(Spend(fs))

\* fs.rm(p, {recursive: true, force: true}); a directory that is not empty
\* and cannot be read cannot be emptied
RmRf(fs, p) ==
    IF \/ FaultDue(fs)
       \/ \E e \in fs.dirs :
             /\ e = p \/ Under(e, p)
             /\ ReadDenied(fs, e)
             /\ \E y \in DOMAIN fs.files \cup fs.dirs : Under(y, e)
    THEN Failure(Spend(fs))
    ELSE Success(
           [Spend(fs) EXCEPT
              !.files = [x \in {y \in DOMAIN fs.files : y # p /\ ~Under(y, p)}
                           |-> fs.files[x]],
              !.dirs  = {d \in fs.dirs : d # p /\ ~Under(d, p)}],
           <<>>)

MovedPath(p, src, dst) == IF p = src THEN dst ELSE dst \o Drop(p, Len(src))

\* fs.rename(src, dst) (rename(2))
Rename(fs, src, dst) ==
    LET srcIsFile == FileExists(fs, src)
        srcIsDir  == src \in fs.dirs
        dstEmpty  == /\ \A y \in DOMAIN fs.files : ~Under(y, dst)
                     /\ \A d \in fs.dirs : ~Under(d, dst)
        inSrc(y)  == y = src \/ Under(y, src)
        inDst(y)  == y = dst \/ Under(y, dst)
        kept      == {y \in DOMAIN fs.files : ~inSrc(y) /\ ~inDst(y)}
        moved     == {y \in DOMAIN fs.files : inSrc(y)}
        newFiles  == kept \cup {MovedPath(y, src, dst) : y \in moved}
        origin(z) == IF z \in kept THEN z
                     ELSE CHOOSE y \in moved : MovedPath(y, src, dst) = z
    IN  IF FaultDue(fs) THEN Failure(Spend(fs))
        ELSE IF ~(srcIsFile \/ srcIsDir) THEN Failure(Spend(fs))
        ELSE IF src = dst THEN Success(Spend(fs), <<>>)
        ELSE IF ~DirExists(fs, Dirname(dst)) THEN Failure(Spend(fs))
        ELSE IF srcIsDir /\ (\/ FileExists(fs, dst)
                             \/ Under(dst, src)
                             \/ dst \in RootDirs
                             \/ (DirExists(fs, dst) /\ ~dstEmpty))
             THEN Failure(Spend(fs))
        ELSE IF srcIsFile /\ DirExists(fs, dst) THEN Failure(Spend(fs))
        ELSE Success(
               [Spend(fs) EXCEPT
                  !.files = [z \in newFiles |-> fs.files[origin(z)]],
                  !.dirs  = {d \in fs.dirs : ~inSrc(d) /\ ~inDst(d)}
                              \cup {MovedPath(d, src, dst) :
                                       d \in {e \in fs.dirs : inSrc(e)}}],
               <<>>)

RECURSIVE SetToSeq(_)
SetToSeq(S) ==
    IF S = {} THEN <<>>
    ELSE LET x == CHOOSE y \in S : TRUE IN <<x>> \o SetToSeq(S \ {x})

\* the paths getAllMarkdownFiles(dir) collects: every *.md file below dir,
\* each as path.join(dir, ...relative names)
MarkdownFilesUnder(fs, dir) == {p \in DOMAIN fs.files : Under(p, dir) /\ IsMd(p)}

\* getAllMarkdownFiles(dir); readdir throws when dir is not a directory or
\* when dir or a directory below it cannot be read
getAllMarkdownFiles(fs, dir) ==
    LET d == Normalize(dir)
    IN  IF /\ DirExists(fs, d)
           /\ ~ReadDenied(fs, d)
           /\ \A e \in fs.dirs : Under(e, d) => ~ReadDenied(fs, e)
        THEN Success(fs, SetToSeq(MarkdownFilesUnder(fs, d)))
        ELSE Failure(fs)

(***************************************************************************)
(* Frontmatter: a function from keys to values.  {...a, ...b} is b @@ a.   *)
(* Every note of the model carries title, tags, created and modified       *)
(* (spec.md section 3), and no frontmatter value contains "[[".            *)
(***************************************************************************)
Has(fm, k) == k \in DOMAIN fm

\* frontmatter.tags || []
TagsOf(fm) == IF Has(fm, "tags") THEN fm["tags"] ELSE <<>>

SeqToSet(q) == {q[k] : k \in 1..Len(q)}

RECURSIVE Dedup(_, _)
\* Array.from(new Set(q)): first occurrences, in order
Dedup(q, seen) ==
    IF Len(q) = 0 THEN <<>>
    ELSE IF Head(q) \in seen THEN Dedup(Tail(q), seen)
    ELSE <<Head(q)>> \o Dedup(Tail(q), seen \cup {Head(q)})

RECURSIVE Without(_, _)
\* Set.prototype.delete on the insertion-ordered set
Without(q, x) ==
    IF Len(q) = 0 THEN <<>>
    ELSE IF Head(q) = x THEN Without(Tail(q), x)
    ELSE <<Head(q)>> \o Without(Tail(q), x)

\* Set.prototype.add on the insertion-ordered set
SetAdd(q, x) == IF x \in SeqToSet(q) THEN q ELSE Append(q, x)

(***************************************************************************)
(* NoteCreationTool (src/src/lib/tools/NoteCreationTool.ts)                *)
(***************************************************************************)
UpperAlpha == "ABCDEFGHIJKLMNOPQRSTUVWXYZ"
LowerAlnum == "abcdefghijklmnopqrstuvwxyz0123456789"

ToLowerCh(c) ==
    LET k == IndexFrom(UpperAlpha, c, 1)
    IN  IF k = 0 THEN c ELSE Ch(LowerAlnum, k)

RECURSIVE ToLower(_)
ToLower(s) == IF Len(s) = 0 THEN "" ELSE ToLowerCh(Head(s)) \o ToLower(Tail(s))

IsAlnum(c) == IndexFrom(LowerAlnum, c, 1) # 0

RECURSIVE DashRuns(_, _)
\* .replace(/[^a-z0-9]+/g, '-')
DashRuns(s, inRun) ==
    IF Len(s) = 0 THEN ""
    ELSE IF IsAlnum(Head(s)) THEN Head(s) \o DashRuns(Tail(s), FALSE)
    ELSE (IF inRun THEN "" ELSE "-") \o DashRuns(Tail(s), TRUE)

\* .replace(/(^-|-$)/g, '')
TrimDashes(s) ==
    LET a == IF StartsWith(s, "-") THEN Tail(s) ELSE s
    IN  IF Len(a) > 0 /\ Ch(a, Len(a)) = "-" THEN SubSeq(a, 1, Len(a) - 1) ELSE a

sanitizeFilename(filename) == TrimDashes(DashRuns(ToLower(filename), FALSE))

\* the template read at NoteCreationTool.ts:45-52: the file's text when it
\* can be read, else the content parameter
TemplateContent(vp, fs, template, content) ==
    LET templatePath == PathJoin(PathJoin(vp, "_templates"), template)
    IN  IF template # "" /\ FileExists(fs, templatePath)
        THEN fs.files[templatePath].body
        ELSE content

\* the value of a parameter the caller left out (undefined): it is no
\* string, and no string of the model equals it
Undefined == "<undefined>"

\* NoteCreationTool.execute; params = [title, content, template, tags,
\* folder, frontmatter]; title.toLowerCase() of a title left out throws
NoteCreate(vp, fs, now, params) ==
    LET filename   == sanitizeFilename(params.title)
        folderPath == PathJoin(vp, params.folder)
        filePath   == PathJoin(folderPath, filename \o ".md")
        m          == Mkdirp(fs, folderPath)
        finalFm    == ("title" :> params.title) @@ ("tags" :> params.tags)
                         @@ ("created" :> now) @@ ("modified" :> now)
                         @@ params.frontmatter
        w          == WriteFile(m.fs, filePath,
                         [fm   |-> finalFm,
                          body |-> TemplateContent(vp, m.fs, params.template,
                                                   params.content)])
    IN  IF params.title = Undefined THEN Failure(fs)
        ELSE IF ~m.ok THEN Failure(m.fs)
        ELSE IF ~w.ok THEN Failure(w.fs)
        ELSE Success(w.fs, [path |-> filePath])

(***************************************************************************)
(* NoteUpdateTool (src/src/lib/tools/NoteUpdateTool.ts)                    *)
(***************************************************************************)
\* an optional array parameter: [some |-> FALSE, v |-> <<>>] when omitted
Omitted == [some |-> FALSE, v |-> <<>>]

Given(v) == [some |-> TRUE, v |-> v]

\* NoteUpdate with the caller's frontmatter spread after the computed keys,
\* so that a caller-supplied title, tags or modified is what gets stored
NoteUpdateFrontmatterLast(vp, fs, now, params) ==
    LET fullPath == PathJoin(vp, params.notePath)
    IN  IF ~FileExists(fs, fullPath) THEN Failure(fs)
        ELSE LET doc == fs.files[fullPath]
                 updatedFm ==
                     params.frontmatter
                       @@ ("title" :> (IF params.title # "" THEN params.title
                                       ELSE doc.fm["title"]))
                       @@ ("tags" :> (IF params.tags.some THEN params.tags.v
                                      ELSE doc.fm["tags"]))
                       @@ ("modified" :> now)
                       @@ doc.fm
                 updatedContent ==
                     IF params.content # "" THEN params.content ELSE doc.body
                 w == WriteFile(fs, fullPath,
                                [fm |-> updatedFm, body |-> updatedContent])
             IN  IF w.ok THEN Success(w.fs, [path |-> params.notePath])
                 ELSE Failure(w.fs)

\* NoteUpdate that creates the note when there is none at notePath
NoteUpdateUpsert(vp, fs, now, params) ==
    LET fullPath == PathJoin(vp, params.notePath)
        doc == IF FileExists(fs, fullPath) THEN fs.files[fullPath]
               ELSE [fm   |-> ("title" :> "") @@ ("tags" :> <<>>)
                                @@ ("created" :> now),
                     body |-> ""]
        updatedFm ==
            ("title" :> (IF params.title # "" THEN params.title
                         ELSE doc.fm["title"]))
              @@ ("tags" :> (IF params.tags.some THEN params.tags.v
                             ELSE doc.fm["tags"]))
              @@ ("modified" :> now)
              @@ params.frontmatter @@ doc.fm
        updatedContent ==
            IF params.content # "" THEN params.content ELSE doc.body
        w == WriteFile(fs, fullPath, [fm |-> updatedFm, body |-> updatedContent])
    IN  IF w.ok THEN Success(w.fs, [path |-> params.notePath])
        ELSE Failure(w.fs)

\* NoteUpdateTool.execute; params = [notePath, title, content, tags,
\* frontmatter]; "" stands for an omitted title or content (both are falsy)
NoteUpdate(vp, fs, now, params) ==
    LET fullPath == PathJoin(vp, params.notePath)
    IN  IF params.notePath = Undefined THEN Failure(fs)   \* path.join throws
        ELSE IF ~FileExists(fs, fullPath) THEN Failure(fs)
        ELSE LET doc == fs.files[fullPath]
                 updatedFm ==
                     ("title" :> (IF params.title # "" THEN params.title
                                  ELSE doc.fm["title"]))
                       @@ ("tags" :> (IF params.tags.some THEN params.tags.v
                                      ELSE doc.fm["tags"]))
                       @@ ("modified" :> now)
                       @@ params.frontmatter @@ doc.fm
                 updatedContent ==
                     IF params.content # "" THEN params.content ELSE doc.body
                 w == WriteFile(fs, fullPath,
                                [fm |-> updatedFm, body |-> updatedContent])
             IN  IF w.ok THEN Success(w.fs, [path |-> params.notePath])
                 ELSE Failure(w.fs)

(***************************************************************************)
(* NoteMoveAndRenameTool (src/src/lib/tools/NoteMoveAndRenameTool.ts)      *)
(***************************************************************************)
RECURSIVE MoveLinkLoop(_, _, _, _, _)
\* the for loop of updateLinksInVault from files[k] on, run to where it
\* ends or throws: a readFile or writeFile that is rejected leaves the loop
MoveLinkLoop(fs, files, k, oldLink, newLink) ==
    IF k > Len(files) THEN fs
    ELSE IF ~FileExists(fs, files[k]) \/ ReadDenied(fs, files[k]) THEN fs
    ELSE LET doc            == fs.files[files[k]]
             updatedContent == MoveReplace(oldLink, newLink, doc.body)
             w == WriteFile(fs, files[k], [doc EXCEPT !.body = updatedContent])
         IN  IF doc.body = updatedContent
             THEN MoveLinkLoop(fs, files, k + 1, oldLink, newLink)
             ELSE IF ~w.ok THEN w.fs
             ELSE MoveLinkLoop(w.fs, files, k + 1, oldLink, newLink)

\* updateLinksInVault: every error is caught and logged, the file system
\* stays as far as the loop got; new RegExp throws in the first iteration
MoveUpdateLinksInVault(vp, fs, oldPath, newPath) ==
    LET all     == getAllMarkdownFiles(fs, vp)
        oldLink == pathToWikiLink(oldPath)
        newLink == pathToWikiLink(newPath)
    IN  IF ~all.ok \/ ~RegexValid(oldLink) THEN fs
        ELSE MoveLinkLoop(fs, all.ret, 1, oldLink, newLink)

\* NoteMoveAndRenameTool.execute; params = [sourcePath, destinationPath,
\* newTitle, updateLinks]; "" stands for an omitted newTitle
NoteMove(vp, fs, now, params) ==
    LET sourceFullPath == PathJoin(vp, params.sourcePath)
        destFullPath   == PathJoin(vp, params.destinationPath)
    IN  IF ~FileExists(fs, sourceFullPath) \/ ReadDenied(fs, sourceFullPath)
        THEN Failure(fs)
        ELSE LET doc == fs.files[sourceFullPath]
                 updatedFm ==
                     ("title" :> (IF params.newTitle # "" THEN params.newTitle
                                  ELSE doc.fm["title"]))
                       @@ ("modified" :> now) @@ doc.fm
                 m == Mkdirp(fs, Dirname(destFullPath))
                 w == WriteFile(m.fs, destFullPath,
                                [fm |-> updatedFm, body |-> doc.body])
                 u == Unlink(w.fs, sourceFullPath)
             IN  IF ~m.ok THEN Failure(m.fs)
                 ELSE IF ~w.ok THEN Failure(w.fs)
                 ELSE IF ~u.ok THEN Failure(u.fs)
                 ELSE Success(
                        IF params.updateLinks
                        THEN MoveUpdateLinksInVault(vp, u.fs, params.sourcePath,
                                                    params.destinationPath)
                        ELSE u.fs,
                        [path |-> destFullPath])

(***************************************************************************)
(* NoteDeletionTool (src/src/lib/tools/FolderOperationTool.ts:166-204)     *)
(***************************************************************************)
\* NoteDelete that also rewrites the links to the deleted note
NoteDeleteScrubbing(vp, fs, notePath) ==
    LET fullPath == PathJoin(vp, notePath)
    IN  IF ~(FileExists(fs, fullPath) \/ DirExists(fs, fullPath))
        THEN Failure(fs)
        ELSE LET u == Unlink(fs, fullPath)
             IN  IF u.ok
                 THEN Success(MoveUpdateLinksInVault(vp, u.fs, notePath, ""),
                              [deletedPath |-> notePath])
                 ELSE Failure(u.fs)

NoteDelete(vp, fs, notePath) ==
    LET fullPath == PathJoin(vp, notePath)
    IN  IF notePath = Undefined THEN Failure(fs)          \* path.join throws
        ELSE IF ~(FileExists(fs, fullPath) \/ DirExists(fs, fullPath))
        THEN Failure(fs)                          \* fs.access: ENOENT
        ELSE LET u == Unlink(fs, fullPath)
             IN  IF u.ok THEN Success(u.fs, [deletedPath |-> notePath])
                 ELSE Failure(u.fs)

(***************************************************************************)
(* TagManagementTool (src/unnamed/part_001)                                *)
(***************************************************************************)
\* TagEdit whose add stores the new tag alone
TagEditAddAlone(operation, fmTags) ==
    LET tags == Dedup(fmTags, {})
        has  == operation.tag \in SeqToSet(tags)
    IN  CASE operation.type = "add" ->
               [hit |-> ~has, tags |-> <<operation.tag>>]
          [] operation.type = "remove" ->
               [hit |-> has, tags |-> Without(tags, operation.tag)]
          [] OTHER ->
               [hit |-> has,
                tags |-> SetAdd(Without(tags, operation.tag), operation.newTag)]

\* TagEdit with the has() test of addTag dropped: add always pushes the tag
\* and writes
TagEditAddUnchecked(operation, fmTags) ==
    LET tags == Dedup(fmTags, {})
        has  == operation.tag \in SeqToSet(tags)
    IN  CASE operation.type = "add" ->
               [hit |-> TRUE, tags |-> Append(tags, operation.tag)]
          [] operation.type = "remove" ->
               [hit |-> has, tags |-> Without(tags, operation.tag)]
          [] OTHER ->
               [hit |-> has,
                tags |-> SetAdd(Without(tags, operation.tag), operation.newTag)]

\* the Set edit of addTag / removeTag / renameTag on the tags of one note:
\* [hit |-> the branch that writes is taken, tags |-> Array.from(tags)]
TagEdit(operation, fmTags) ==
    LET tags == Dedup(fmTags, {})
        has  == operation.tag \in SeqToSet(tags)
    IN  CASE operation.type = "add" ->
               [hit |-> ~has, tags |-> SetAdd(tags, operation.tag)]
          [] operation.type = "remove" ->
               [hit |-> has, tags |-> Without(tags, operation.tag)]
          [] OTHER ->
               [hit |-> has,
                tags |-> SetAdd(Without(tags, operation.tag), operation.newTag)]

RECURSIVE TagLoop(_, _, _, _, _, _, _)
\* the for loop of addTag / removeTag / renameTag from files[k] on; a
\* failing readFile throws out of the loop and out of the tool, and so does
\* matter.stringify of a tag list that holds undefined
TagLoop(vp, fs, now, operation, files, k, updatedNotes) ==
    IF k > Len(files) THEN Success(fs, updatedNotes)
    ELSE LET file     == files[k]
             fullPath == PathJoin(vp, file)
         IN  IF ~FileExists(fs, fullPath) \/ ReadDenied(fs, fullPath)
             THEN Failure(fs)
             ELSE LET doc == fs.files[fullPath]
                      e   == TagEdit(operation, TagsOf(doc.fm))
                      w   == WriteFile(fs, fullPath,
                                [doc EXCEPT !.fm = ("tags" :> e.tags)
                                       @@ ("modified" :> now) @@ doc.fm])
                  IN  IF ~e.hit
                      THEN TagLoop(vp, fs, now, operation, files, k + 1,
                                   updatedNotes)
                      ELSE IF Undefined \in SeqToSet(e.tags) THEN Failure(fs)
                      ELSE IF ~w.ok THEN Failure(w.fs)
                      ELSE TagLoop(vp, w.fs, now, operation, files, k + 1,
                                   Append(updatedNotes, file))

\* the file list of addTag / removeTag: notePaths || getAllMarkdownFiles
TagScope(vp, fs, notePaths) ==
    IF notePaths.some THEN Success(fs, notePaths.v)
    ELSE getAllMarkdownFiles(fs, vp)

\* TagManagementTool.execute; operation = [type, tag, newTag, notePaths];
\* "" stands for an omitted newTag
TagManage(vp, fs, now, operation) ==
    IF operation.type \notin {"add", "remove", "rename"} THEN Failure(fs)
    ELSE IF operation.type = "rename" /\ operation.newTag = "" THEN Failure(fs)
    ELSE LET scope == IF operation.type = "rename"
                      THEN getAllMarkdownFiles(fs, vp)
                      ELSE TagScope(vp, fs, operation.notePaths)
             done  == TagLoop(vp, fs, now, operation, scope.ret, 1, <<>>)
         IN  IF ~scope.ok THEN Failure(fs)
             ELSE IF ~done.ok THEN Failure(done.fs)
             ELSE Success(done.fs, [notes |-> done.ret])

(***************************************************************************)
(* FolderOperationTool (src/src/lib/tools/FolderOperationTool.ts)          *)
(***************************************************************************)
RECURSIVE FolderLinkLoop(_, _, _, _, _)
\* the for loop of updateLinksInVault of the folder tool from files[k] on
FolderLinkLoop(fs, files, k, oldPathPattern, newPathPattern) ==
    IF k > Len(files) THEN fs
    ELSE IF ~FileExists(fs, files[k]) \/ ReadDenied(fs, files[k]) THEN fs
    ELSE LET doc            == fs.files[files[k]]
             updatedContent == FolderReplace(oldPathPattern, newPathPattern,
                                             doc.body)
             w == WriteFile(fs, files[k], [doc EXCEPT !.body = updatedContent])
         IN  IF doc.body = updatedContent
             THEN FolderLinkLoop(fs, files, k + 1, oldPathPattern,
                                 newPathPattern)
             ELSE IF ~w.ok THEN w.fs
             ELSE FolderLinkLoop(w.fs, files, k + 1, oldPathPattern,
                                 newPathPattern)

\* updateLinksInVault of the folder tool; errors are caught and logged
FolderUpdateLinksInVault(vp, fs, oldPath, newPath) ==
    LET all            == getAllMarkdownFiles(fs, vp)
        oldPathPattern == pathToWikiLink(oldPath)
        newPathPattern == pathToWikiLink(newPath)
    IN  IF ~all.ok \/ ~RegexValid(oldPathPattern) THEN fs
        ELSE FolderLinkLoop(fs, all.ret, 1, oldPathPattern, newPathPattern)

\* StatsAt without the recursive call: the entries of the folder itself
StatsAtShallow(fs, full) ==
    IF ~DirExists(fs, full) \/ ReadDenied(fs, full)
    THEN [noteCount |-> 0, subfolderCount |-> 0]
    ELSE [noteCount      |-> Cardinality({q \in DOMAIN fs.files :
                                             Dirname(q) = full /\ IsMd(q)}),
          subfolderCount |-> Cardinality({e \in fs.dirs :
                                             e # full /\ Dirname(e) = full})]

RECURSIVE StatsAt(_, _), StatsOver(_, _)
\* the counts getFolderStats adds up for the directory at full: readdir
\* throws (no such directory, no permission) into the catch, which leaves
\* both counts as they are; a subdirectory counts itself and its own counts
StatsAt(fs, full) ==
    IF ~DirExists(fs, full) \/ ReadDenied(fs, full)
    THEN [noteCount |-> 0, subfolderCount |-> 0]
    ELSE LET subs  == {e \in fs.dirs : e # full /\ Dirname(e) = full}
             notes == {q \in DOMAIN fs.files : Dirname(q) = full /\ IsMd(q)}
             below == StatsOver(fs, subs)
         IN  [noteCount      |-> Cardinality(notes) + below.noteCount,
              subfolderCount |-> Cardinality(subs) + below.subfolderCount]

\* the sum of the counts of the directories of S
StatsOver(fs, S) ==
    IF S = {} THEN [noteCount |-> 0, subfolderCount |-> 0]
    ELSE LET e    == CHOOSE x \in S : TRUE
             one  == StatsAt(fs, e)
             rest == StatsOver(fs, S \ {e})
         IN  [noteCount      |-> one.noteCount + rest.noteCount,
              subfolderCount |-> one.subfolderCount + rest.subfolderCount]

\* getFolderStats(folderPath): never throws
getFolderStats(vp, fs, folderPath) ==
    LET counts == StatsAt(fs, PathJoin(vp, folderPath))
    IN  [path |-> folderPath, noteCount |-> counts.noteCount,
         subfolderCount |-> counts.subfolderCount]

createFolder(vp, fs, folderPath) ==
    LET m == Mkdirp(fs, PathJoin(vp, folderPath))
    IN  IF m.ok THEN Success(m.fs, getFolderStats(vp, m.fs, folderPath))
        ELSE Failure(m.fs)

deleteFolder(vp, fs, folderPath) ==
    LET stats == getFolderStats(vp, fs, folderPath)
        r     == RmRf(fs, PathJoin(vp, folderPath))
    IN  IF r.ok THEN Success(r.fs, stats) ELSE Failure(r.fs)

moveFolder(vp, fs, sourcePath, destinationPath) ==
    LET sourceFullPath == PathJoin(vp, sourcePath)
        destFullPath   == PathJoin(vp, destinationPath)
        m == Mkdirp(fs, Dirname(destFullPath))
        r == Rename(m.fs, sourceFullPath, destFullPath)
    IN  IF ~m.ok THEN Failure(m.fs)
        ELSE IF ~r.ok THEN Failure(r.fs)
        ELSE LET linked == FolderUpdateLinksInVault(vp, r.fs, sourcePath,
                                                     destinationPath)
             IN  Success(linked, getFolderStats(vp, linked, destinationPath))

\* FolderOperationTool.execute; operation = [type, sourcePath,
\* destinationPath]; "" stands for an omitted destinationPath
FolderOperate(vp, fs, operation) ==
    CASE operation.type = "create" -> createFolder(vp, fs, operation.sourcePath)
      [] operation.type = "delete" -> deleteFolder(vp, fs, operation.sourcePath)
      [] operation.type \in {"rename", "move"} ->
           IF operation.destinationPath = "" THEN Failure(fs)
           ELSE moveFolder(vp, fs, operation.sourcePath,
                           operation.destinationPath)
      [] OTHER -> Failure(fs)

(***************************************************************************)
(* State.  vaultPath is the constructor argument of every tool; files and  *)
(* dirs are the file system; now is the clock read by new Date().  last,   *)
(* pre and lastMod are history: the last tool call with its outcome and    *)
(* the time it was made, the file system before it, and for every path the *)
(* modified stamp most recently stored there.  steps counts tool calls.    *)
(* agent is the task the                                                   *)
(* NoteManagementAgent is executing: the position of its execute call, the *)
(* values it holds and the record of what it has done.  inflight are the   *)
(* tool calls that were started together and have not been awaited one by  *)
(* one: for each the await it is suspended at and its locals.              *)
(***************************************************************************)
VARIABLES vaultPath, files, dirs, now, steps, last, pre, lastMod, agent, inflight

vars ==
    <<vaultPath, files, dirs, now, steps, last, pre, lastMod, agent, inflight>>

\* the vault roots the tools are constructed with: an absolute directory,
\* and the working directory
VaultPaths == {"/v", "."}

Note(title, tags, body) ==
    [fm   |-> ("title" :> title) @@ ("tags" :> tags)
                 @@ ("created" :> 0) @@ ("modified" :> 0),
     body |-> body]

\* the file system holding the notes of layout (vault-relative path -> note)
\* below vp, and outside (path relative to vp -> note) next to it
VaultFs(vp, layout, outside) ==
    LET all    == [r \in DOMAIN layout \cup DOMAIN outside |->
                     IF r \in DOMAIN layout THEN layout[r] ELSE outside[r]]
        at(r)  == PathJoin(vp, r)
        paths  == {at(r) : r \in DOMAIN all}
    IN  [files |-> [p \in paths |-> all[CHOOSE r \in DOMAIN all : at(r) = p]],
         dirs  |-> Ancestors(Normalize(vp))
                     \cup UNION {Ancestors(Dirname(p)) : p \in paths}]

NoCall == [op |-> "none", params |-> <<>>, ok |-> TRUE, ret |-> <<>>, at |-> 0]

\* no task: execute has not been called.  phase is the await the call is
\* suspended at; taskAnalysis, taskUnderstanding, selectedTools,
\* executionPlan and results are the locals of NoteManagementAgent.execute,
\* BaseAgent.execute and BaseAgent.executePlan; running is the plan step
\* whose tool.execute is awaited (0 when none); result is the TaskResult
\* returned.  History: started lists the plan steps begun, calls the outcome
\* of every tool.execute of the task, failedAt the place that threw, entry
\* the file system when execute was called.
NoTask ==
    [phase |-> "idle", taskAnalysis |-> <<>>, taskUnderstanding |-> <<>>,
     selectedTools |-> {}, executionPlan |-> <<>>, results |-> <<>>,
     running |-> 0, result |-> <<>>,
     started |-> <<>>, calls |-> <<>>, failedAt |-> "none", entry |-> <<>>]

InitWith(vp, fs) ==
    /\ vaultPath = vp
    /\ files = fs.files
    /\ dirs = fs.dirs
    /\ now = 0
    /\ steps = 0
    /\ last = NoCall
    /\ pre = fs
    /\ lastMod = [p \in DOMAIN fs.files |-> fs.files[p].fm["modified"]]
    /\ agent = NoTask
    /\ inflight = <<>>

Fs == [files |-> files, dirs |-> dirs]

\* a tool call with outcome res becomes the next state
Commit(op, params, res) ==
    /\ steps' = steps + 1
    /\ files' = res.fs.files
    /\ dirs' = res.fs.dirs
    /\ last' = [op |-> op, params |-> params, ok |-> res.ok, ret |-> res.ret,
                at |-> now]
    /\ pre' = Fs
    /\ lastMod' = [p \in DOMAIN lastMod \cup DOMAIN res.fs.files |->
                      IF p \in DOMAIN res.fs.files
                      THEN res.fs.files[p].fm["modified"]
                      ELSE lastMod[p]]
    /\ UNCHANGED <<vaultPath, now, inflight>>

DoNoteCreate(params) ==
    /\ steps < MaxSteps
    /\ Commit("create", params, NoteCreate(vaultPath, Fs, now, params))
    /\ UNCHANGED agent

DoNoteUpdate(params) ==
    /\ steps < MaxSteps
    /\ Commit("update", params, NoteUpdate(vaultPath, Fs, now, params))
    /\ UNCHANGED agent

DoNoteDelete(params) ==
    /\ steps < MaxSteps
    /\ Commit("delete", params, NoteDelete(vaultPath, Fs, params.notePath))
    /\ UNCHANGED agent

DoNoteMove(params) ==
    /\ steps < MaxSteps
    /\ Commit("move", params, NoteMove(vaultPath, Fs, now, params))
    /\ UNCHANGED agent

DoTagManage(operation) ==
    /\ steps < MaxSteps
    /\ Commit("tag", operation, TagManage(vaultPath, Fs, now, operation))
    /\ UNCHANGED agent

DoFolderOperate(operation) ==
    /\ steps < MaxSteps
    /\ Commit("folder", operation, FolderOperate(vaultPath, Fs, operation))
    /\ UNCHANGED agent

\* the clock advances between tool calls
Tick ==
    /\ now < MaxClock
    /\ now' = now + 1
    /\ UNCHANGED <<vaultPath, files, dirs, steps, last, pre, lastMod, agent,
                   inflight>>

(***************************************************************************)
(* SpecLinks: note and folder moves over a vault whose notes link to each  *)
(* other.                                                                  *)
(***************************************************************************)
LinkBodies ==
    { "[[foo]] and [[foobar]]",
      "[[a/b]] [[a/b|custom alias]] [[b]] [[b|custom alias]]",
      "[[foo/n]] [[foobar/n]] [[foobar]]",
      "[[c+]] [[cc|x]]" }

LinkLayout(body) ==
    ("foo.md" :> Note("foo", <<>>, ""))
      @@ ("foo/n.md" :> Note("n", <<>>, "[[foo/n|self]]"))
      @@ ("foobar/n.md" :> Note("n", <<>>, ""))
      @@ ("a/b.md" :> Note("b", <<>>, "[[a/b]]"))
      @@ ("c+.md" :> Note("c+", <<>>, ""))
      @@ ("idx.md" :> Note("idx", <<>>, body))

LinkMoves ==
    { [sourcePath |-> m[1], destinationPath |-> m[2], newTitle |-> "",
       updateLinks |-> u] :
        m \in { <<"foo.md", "baz.md">>, <<"a/b.md", "c/d.md">>,
                <<"c+.md", "z.md">>, <<"a/b.md", "c/d e.md">> },
        u \in BOOLEAN }

LinkFolderMoves ==
    { [type |-> "move", sourcePath |-> "foo", destinationPath |-> "baz"],
      [type |-> "rename", sourcePath |-> "a", destinationPath |-> "c"] }

InitLinks ==
    \E vp \in VaultPaths, body \in LinkBodies :
        InitWith(vp, VaultFs(vp, LinkLayout(body), <<>>))

NextLinks ==
    \/ \E params \in LinkMoves : DoNoteMove(params)
    \/ \E operation \in LinkFolderMoves : DoFolderOperate(operation)

SpecLinks == InitLinks /\ [][NextLinks]_vars

(***************************************************************************)
(* Link references of a body, as spec.md section 3 defines them:           *)
(* [[target]] or [[target|alias]], scanned left to right, the bracket pair *)
(* matched non-greedily.  alias keeps its leading "|".                     *)
(***************************************************************************)
RECURSIVE RefsFrom(_, _)
RefsFrom(body, i) ==
    LET o == IndexFrom(body, "[[", i)
        c == IndexFrom(body, "]]", o + 2)
        inner == SubSeq(body, o + 2, c - 1)
        bar == IndexFrom(inner, "|", 1)
    IN  IF o = 0 \/ c = 0 THEN <<>>
        ELSE << [target |-> IF bar = 0 THEN inner ELSE SubSeq(inner, 1, bar - 1),
                 alias  |-> IF bar = 0 THEN "" ELSE Drop(inner, bar - 1)] >>
               \o RefsFrom(body, c + 2)

Refs(body) == RefsFrom(body, 1)

\* the documents of the vault
VaultDocs == MarkdownFilesUnder(Fs, Normalize(vaultPath))

LastIs(op) == last.op = op

MoveDone == LastIs("move") /\ last.ok /\ last.params.updateLinks

MoveSrc == PathJoin(vaultPath, last.params.sourcePath)

MoveDst == PathJoin(vaultPath, last.params.destinationPath)

\* the note a document of the vault was before the last note move
BeforeMove(p) == IF p = MoveDst THEN pre.files[MoveSrc] ELSE pre.files[p]

\* C1: after a successful moveAndRename with updateLinks, in every document
\* every reference whose target is the link identifier of the source is now
\* a reference to the identifier of the destination with the same alias, and
\* (the two identifiers being different) no reference to the old one remains.
C1_MoveRewritesEveryReference ==
    MoveDone =>
        LET old == pathToWikiLink(last.params.sourcePath)
            new == pathToWikiLink(last.params.destinationPath)
        IN  \A p \in VaultDocs :
                LET rb == Refs(BeforeMove(p).body)
                    ra == Refs(files[p].body)
                IN  /\ Len(ra) = Len(rb)
                    /\ \A k \in 1..Len(rb) :
                          rb[k].target = old =>
                              ra[k] = [target |-> new, alias |-> rb[k].alias]
                    /\ old # new =>
                          \A k \in 1..Len(ra) : ra[k].target # old

\* the whitespace-substituted basename of a path, extension stripped
BaseIdentifier(path) ==
    LET parts == Split(pathToWikiLink(path), "/") IN parts[Len(parts)]

\* C2: a note move rewrites, in every other document, the references to the
\* whitespace-substituted basename of the source ([[b]], [[b|custom alias]])
\* into references to the basename of the destination, alias kept.
C2_MoveMatchesBasename ==
    MoveDone =>
        LET old == BaseIdentifier(last.params.sourcePath)
            new == BaseIdentifier(last.params.destinationPath)
        IN  \A p \in VaultDocs \ {MoveDst} :
                LET rb == Refs(pre.files[p].body)
                    ra == Refs(files[p].body)
                IN  /\ Len(ra) = Len(rb)
                    /\ \A k \in 1..Len(rb) :
                          rb[k].target = old =>
                              ra[k] = [target |-> new, alias |-> rb[k].alias]

\* C3: a note move changes only references whose target is exactly the old
\* identifier; every other reference, in particular one whose target has the
\* old identifier as a proper prefix, is unchanged.
C3_MoveRewritesOnlyExactTarget ==
    MoveDone =>
        LET old == pathToWikiLink(last.params.sourcePath)
        IN  \A p \in VaultDocs :
                LET rb == Refs(BeforeMove(p).body)
                    ra == Refs(files[p].body)
                IN  /\ Len(ra) = Len(rb)
                    /\ \A k \in 1..Len(rb) :
                          rb[k].target # old => ra[k] = rb[k]

FolderMoveDone ==
    LastIs("folder") /\ last.ok /\ last.params.type \in {"move", "rename"}

FolderSrc == PathJoin(vaultPath, last.params.sourcePath)

FolderDst == PathJoin(vaultPath, last.params.destinationPath)

\* the note a document of the vault was before the last folder move
BeforeFolderMove(p) ==
    IF p = FolderDst \/ Under(p, FolderDst)
    THEN pre.files[MovedPath(p, FolderDst, FolderSrc)]
    ELSE pre.files[p]

\* C4: after a folder move, every reference to a document outside the moved
\* subtree is unchanged, also when its target only shares a leading string
\* with the identifier of the source folder ([[foobar]] when foo moves).
C4_FolderMoveLeavesOtherReferences ==
    FolderMoveDone =>
        LET old == pathToWikiLink(last.params.sourcePath)
        IN  \A p \in VaultDocs :
                LET rb == Refs(BeforeFolderMove(p).body)
                    ra == Refs(files[p].body)
                IN  /\ Len(ra) = Len(rb)
                    /\ \A k \in 1..Len(rb) :
                          ~StartsWith(rb[k].target, old \o "/") => ra[k] = rb[k]

(***************************************************************************)
(* SpecTags: note and tag calls over a small tagged vault, with a clock.   *)
(***************************************************************************)
NoFrontmatter == <<>>

TagLayout(tagsOfA) ==
    ("a.md" :> Note("A", tagsOfA, ""))
      @@ ("d/b.md" :> Note("B", <<"x", "y">>, ""))

TagCreates ==
    { [title |-> "Ideas", content |-> "", template |-> "", folder |-> "",
       tags |-> <<"draft">>, frontmatter |-> NoFrontmatter],
      [title |-> "A", content |-> "", template |-> "", folder |-> "",
       tags |-> <<"x", "x">>, frontmatter |-> NoFrontmatter],
      [title |-> "Ideas", content |-> "", template |-> "", folder |-> "",
       tags |-> <<"draft">>,
       frontmatter |-> ("modified" :> 0) @@ ("status" :> "s")] }

TagUpdates ==
    { [notePath |-> "a.md", title |-> "", content |-> "", tags |-> Omitted,
       frontmatter |-> ("modified" :> 0)],
      [notePath |-> "a.md", title |-> "", content |-> "",
       tags |-> Given(<<"y", "y">>), frontmatter |-> NoFrontmatter],
      [notePath |-> "a.md", title |-> "T2", content |-> "new", tags |-> Omitted,
       frontmatter |-> ("tags" :> <<"q">>)] }

TagMoves ==
    { [sourcePath |-> "a.md", destinationPath |-> "d/b.md", newTitle |-> "",
       updateLinks |-> TRUE],
      [sourcePath |-> "d/b.md", destinationPath |-> "a.md", newTitle |-> "",
       updateLinks |-> TRUE] }

TagDeletes == { [notePath |-> "a.md"] }

TagOperations ==
    { [type |-> "add", tag |-> "x", newTag |-> "", notePaths |-> Omitted],
      [type |-> "add", tag |-> "z", newTag |-> "", notePaths |-> Omitted],
      [type |-> "add", tag |-> "z", newTag |-> "",
       notePaths |-> Given(<<"a.md">>)],
      [type |-> "add", tag |-> "z", newTag |-> "",
       notePaths |-> Given(<<"a.md", "q.md", "d/b.md">>)],
      [type |-> "remove", tag |-> "x", newTag |-> "", notePaths |-> Omitted],
      [type |-> "remove", tag |-> "x", newTag |-> "",
       notePaths |-> Given(<<"a.md">>)],
      [type |-> "rename", tag |-> "x", newTag |-> "z", notePaths |-> Omitted],
      [type |-> "rename", tag |-> "x", newTag |-> "y", notePaths |-> Omitted],
      [type |-> "rename", tag |-> "x", newTag |-> "", notePaths |-> Omitted] }

InitTags ==
    \E vp \in VaultPaths, tagsOfA \in {<<"x">>, <<"y">>} :
        InitWith(vp, VaultFs(vp, TagLayout(tagsOfA), <<>>))

NextTags ==
    \/ \E params \in TagCreates : DoNoteCreate(params)
    \/ \E params \in TagUpdates : DoNoteUpdate(params)
    \/ \E params \in TagMoves : DoNoteMove(params)
    \/ \E params \in TagDeletes : DoNoteDelete(params)
    \/ \E operation \in TagOperations : DoTagManage(operation)
    \/ Tick

SpecTags == InitTags /\ [][NextTags]_vars

PreDocs == MarkdownFilesUnder(pre, Normalize(vaultPath))

TagsAt(fs, p) == TagsOf(fs.files[p].fm)

Count(q, x) == Cardinality({k \in 1..Len(q) : q[k] = x})

NoDuplicates(q) == \A x \in SeqToSet(q) : Count(q, x) = 1

TagCall(type) == LastIs("tag") /\ last.params.type = type

\* C5: after tag rename(old, new), no document has old in its tags and every
\* document that had old has new exactly once, also when it already had new.
C5_RenameReplacesTagEverywhere ==
    (TagCall("rename") /\ last.params.newTag \notin {"", last.params.tag}) =>
        \A p \in VaultDocs :
            /\ last.params.tag \notin SeqToSet(TagsAt(Fs, p))
            /\ (p \in PreDocs /\ last.params.tag \in SeqToSet(TagsAt(pre, p)))
                  => Count(TagsAt(Fs, p), last.params.newTag) = 1

\* C6: tag add is idempotent: the same add(tag, scope) called again, at the
\* same or a later time, leaves every file with the tags it has after the
\* first call.
C6_TagAddIdempotent ==
    TagCall("add") =>
        \A t \in now..MaxClock :
            LET again == TagManage(vaultPath, Fs, t, last.params).fs
            IN  /\ DOMAIN again.files = DOMAIN files
                /\ \A p \in DOMAIN files : TagsAt(again, p) = TagsAt(Fs, p)

\* the add has written the tag into some note
C6_Witness ==
    /\ TagCall("add")
    /\ last.ok
    /\ last.ret.notes # <<>>
    /\ \E p \in DOMAIN files \cap DOMAIN pre.files :
          /\ last.params.tag \in SeqToSet(TagsAt(Fs, p))
          /\ last.params.tag \notin SeqToSet(TagsAt(pre, p))

\* C7: with no list of paths, tag add (remove) works on all documents: after
\* it every document of the vault has (lacks) the tag, and the reported
\* paths are exactly the documents that lacked (had) it before.
C7_UnscopedTagCallCoversVault ==
    ((TagCall("add") \/ TagCall("remove")) /\ ~last.params.notePaths.some) =>
        LET adding == last.params.type = "add"
            had(fs, p) == last.params.tag \in SeqToSet(TagsAt(fs, p))
        IN  /\ last.ok
            /\ \A p \in VaultDocs : had(Fs, p) = adding
            /\ SeqToSet(last.ret.notes) = {p \in PreDocs : had(pre, p) # adding}

\* C8: the tags of every stored document contain no duplicate entry.
C8_NoDuplicateTags ==
    \A p \in VaultDocs : NoDuplicates(TagsAt(Fs, p))

\* C9: whenever a note, tag or move call stores a note at a path, its
\* modified stamp is not below the stamp most recently stored at that path.
C9_ModifiedNeverDecreases ==
    [][\A p \in DOMAIN files' :
          ((p \notin DOMAIN files \/ files'[p] # files[p]) /\ p \in DOMAIN lastMod)
              => files'[p].fm["modified"] >= lastMod[p]]_vars

\* an update carrying a lower modified in its frontmatter parameter was
\* stored over a note stamped later than that
C9_Witness ==
    /\ LastIs("update")
    /\ last.ok
    /\ Has(last.params.frontmatter, "modified")
    /\ LET p == PathJoin(vaultPath, last.params.notePath)
       IN  /\ pre.files[p].fm["modified"] > last.params.frontmatter["modified"]
           /\ files[p].fm["modified"] >= pre.files[p].fm["modified"]

(***************************************************************************)
(* Spec: every tool, called with paths inside the vault and with paths     *)
(* whose ".." segments lead out of it.  The vault has a note next to it    *)
(* (../out/x.md seen from the vault root).                                 *)
(***************************************************************************)
PathLayout ==
    ("a.md" :> Note("A", <<"x">>, "[[d/b]]"))
      @@ ("d/b.md" :> Note("B", <<"x", "y">>, ""))
      @@ ("_templates/t.md" :> Note("t", <<>>, "from template"))

OutsideLayout == ("../out/x.md" :> Note("X", <<"x">>, "outside"))

PathCreates ==
    { [title |-> "Ideas", content |-> "c", template |-> "t.md", folder |-> "n",
       tags |-> <<"draft">>, frontmatter |-> NoFrontmatter],
      [title |-> "Ideas", content |-> "c", template |-> "", folder |-> "../out",
       tags |-> <<"draft">>, frontmatter |-> NoFrontmatter],
      [title |-> "Ideas", content |-> "c", template |-> "../../out/x.md",
       folder |-> "", tags |-> <<"draft">>, frontmatter |-> NoFrontmatter] }

PathUpdates ==
    { [notePath |-> r, title |-> "", content |-> "new", tags |-> Omitted,
       frontmatter |-> NoFrontmatter] : r \in {"a.md", "../out/x.md"} }

PathDeletes == { [notePath |-> r] : r \in {"d/b.md", "../out/x.md"} }

PathMoves ==
    { [sourcePath |-> m[1], destinationPath |-> m[2], newTitle |-> "",
       updateLinks |-> TRUE] :
        m \in { <<"a.md", "d/c.md">>, <<"a.md", "../out/y.md">>,
                <<"../out/x.md", "in.md">> } }

PathTagOperations ==
    { [type |-> "add", tag |-> "z", newTag |-> "",
       notePaths |-> Given(<<"a.md">>)],
      [type |-> "add", tag |-> "z", newTag |-> "",
       notePaths |-> Given(<<"../out/x.md">>)],
      [type |-> "remove", tag |-> "x", newTag |-> "",
       notePaths |-> Given(<<"../out/x.md">>)],
      [type |-> "rename", tag |-> "x", newTag |-> "z", notePaths |-> Omitted] }

PathFolderOperations ==
    { [type |-> "create", sourcePath |-> "n", destinationPath |-> ""],
      [type |-> "create", sourcePath |-> "../new", destinationPath |-> ""],
      [type |-> "delete", sourcePath |-> "d", destinationPath |-> ""],
      [type |-> "delete", sourcePath |-> "../out", destinationPath |-> ""],
      [type |-> "move", sourcePath |-> "d", destinationPath |-> "e"],
      [type |-> "move", sourcePath |-> "d", destinationPath |-> "../out2"],
      [type |-> "move", sourcePath |-> "d", destinationPath |-> ""] }

Init ==
    \E vp \in VaultPaths : InitWith(vp, VaultFs(vp, PathLayout, OutsideLayout))

Next ==
    \/ \E params \in PathCreates : DoNoteCreate(params)
    \/ \E params \in PathUpdates : DoNoteUpdate(params)
    \/ \E params \in PathDeletes : DoNoteDelete(params)
    \/ \E params \in PathMoves : DoNoteMove(params)
    \/ \E operation \in PathTagOperations : DoTagManage(operation)
    \/ \E operation \in PathFolderOperations : DoFolderOperate(operation)
    \/ Tick

Spec == Init /\ [][Next]_vars

\* p is the vault root or lies below it
InVault(p) == p = Normalize(vaultPath) \/ Under(p, Normalize(vaultPath))

\* the path parameters of the last call, as the tool joins them to the root
LastPathParams ==
    CASE LastIs("create") ->
           {last.params.folder}
             \cup (IF last.params.template = "" THEN {}
                   ELSE {"_templates/" \o last.params.template})
      [] LastIs("update") \/ LastIs("delete") -> {last.params.notePath}
      [] LastIs("move") ->
           {last.params.sourcePath, last.params.destinationPath}
      [] LastIs("tag") -> SeqToSet(last.params.notePaths.v)
      [] LastIs("folder") ->
           {last.params.sourcePath}
             \cup (IF last.params.destinationPath = "" THEN {}
                   ELSE {last.params.destinationPath})
      [] OTHER -> {}

OutsideVault(fs) ==
    [files |-> [p \in {q \in DOMAIN fs.files : ~InVault(q)} |-> fs.files[p]],
     dirs  |-> {d \in fs.dirs : ~InVault(d)}]

\* C10: no call changes a location outside the vault root, and a call with a
\* path parameter that resolves outside the vault fails and leaves the file
\* system unchanged.
C10_NoAccessOutsideVault ==
    /\ OutsideVault(Fs) = OutsideVault(pre)
    /\ (\E r \in LastPathParams : ~InVault(PathJoin(vaultPath, r)))
          => (~last.ok /\ Fs = pre)


(***************************************************************************)
(* NoteManagementAgent (src/src/lib/agents/NoteManagementAgent.ts) and     *)
(* BaseAgent (src/unnamed/part_002:251-387).  The answers of the language  *)
(* model to understandTask and createExecutionPlan are inputs: a call      *)
(* either throws or yields the parsed JSON object.                         *)
(***************************************************************************)
\* the names of the tools the constructor registers
ToolNames ==
    {"note_creation", "note_update", "note_deletion", "note_move",
     "tag_management", "folder_operation"}

\* the cases of the switch in NoteManagementAgent.execute and the tool each
\* wrapper (createNote .. manageFolder) looks up
ToolOfTaskType ==
    ("create" :> "note_creation") @@ ("update" :> "note_update")
      @@ ("delete" :> "note_deletion") @@ ("move" :> "note_move")
      @@ ("tag" :> "tag_management") @@ ("folder" :> "folder_operation")

TaskTypeOfTool ==
    [n \in ToolNames |-> CHOOSE t \in DOMAIN ToolOfTaskType : ToolOfTaskType[t] = n]

\* tool.execute(parameters) of the tool registered as name
ToolExecute(name, vp, fs, t, parameters) ==
    CASE name = "note_creation" -> NoteCreate(vp, fs, t, parameters)
      [] name = "note_update" -> NoteUpdate(vp, fs, t, parameters)
      [] name = "note_deletion" -> NoteDelete(vp, fs, parameters.notePath)
      [] name = "note_move" -> NoteMove(vp, fs, t, parameters)
      [] name = "tag_management" -> TagManage(vp, fs, t, parameters)
      [] name = "folder_operation" -> FolderOperate(vp, fs, parameters)

\* the TaskResult envelopes
TaskSuccess(message, data) ==
    [success |-> TRUE, message |-> message, data |-> data]

TaskFailure(message, error) ==
    [success |-> FALSE, message |-> message, error |-> error]

\* the messages of the wrappers createNote .. manageFolder
WrapperSuccessMessage ==
    ("create" :> "Note created successfully")
      @@ ("update" :> "Note updated successfully")
      @@ ("delete" :> "Note deleted successfully")
      @@ ("move" :> "Note moved successfully")
      @@ ("tag" :> "Tag operation completed successfully")
      @@ ("folder" :> "Folder operation completed successfully")

WrapperFailureMessage ==
    ("create" :> "Failed to create note") @@ ("update" :> "Failed to update note")
      @@ ("delete" :> "Failed to delete note") @@ ("move" :> "Failed to move note")
      @@ ("tag" :> "Failed to manage tag")
      @@ ("folder" :> "Failed to manage folder")

RECURSIVE LastIndexOf(_, _, _)
\* the last position <= i of character c in s, 0 when there is none
LastIndexOf(s, c, i) ==
    IF i = 0 THEN 0
    ELSE IF Ch(s, i) = c THEN i
    ELSE LastIndexOf(s, c, i - 1)

\* fileName.replace(/\.[^/.]+$/, '')
StripExtension(fileName) ==
    LET dot == LastIndexOf(fileName, ".", Len(fileName))
    IN  IF dot = 0 \/ dot = Len(fileName)
           \/ IndexFrom(fileName, "/", dot) # 0
        THEN fileName
        ELSE SubSeq(fileName, 1, dot - 1)

\* the parameters of the createNote call for options.uploadedFile
UploadParams(uploadedFile, t) ==
    [title    |-> StripExtension(uploadedFile.name),
     content  |-> "File uploaded: " \o uploadedFile.name
                    \o "\nType: " \o uploadedFile.type
                    \o "\nPath: " \o uploadedFile.path,
     template |-> "", folder |-> "",
     tags     |-> <<"uploaded-file">>,
     frontmatter |-> ("originalFile" :> uploadedFile.name)
                       @@ ("fileType" :> uploadedFile.type)
                       @@ ("uploadPath" :> uploadedFile.path)
                       @@ ("uploadDate" :> t)]

\* the agent once execute has returned result
Returned(a, result, failedAt) ==
    [a EXCEPT !.phase = "returned", !.result = result, !.running = 0,
              !.failedAt = failedAt]

Called(a, name, ok) == [a EXCEPT !.calls = Append(@, [tool |-> name, ok |-> ok])]

FsUnchanged ==
    UNCHANGED <<vaultPath, files, dirs, now, steps, last, pre, lastMod, inflight>>

\* NoteManagementAgent.execute(task) without options.uploadedFile, up to the
\* await of understandTask
AgentExecute ==
    /\ agent.phase = "idle"
    /\ agent' = [agent EXCEPT !.phase = "classifying", !.entry = Fs]
    /\ FsUnchanged

\* NoteManagementAgent.execute(task, {uploadedFile}): the note for the file
\* is created first, then understandTask is awaited
AgentExecuteUpload(uploadedFile) ==
    /\ agent.phase = "idle"
    /\ \E res \in {NoteCreate(vaultPath, Fs, now,
                               UploadParams(uploadedFile, now))} :
       LET params == UploadParams(uploadedFile, now)
           a      == Called([agent EXCEPT !.entry = Fs], "note_creation", res.ok)
       IN  /\ Commit("create", params, res)
           /\ agent' = IF res.ok THEN [a EXCEPT !.phase = "classifying"]
                       ELSE Returned(a, TaskFailure("Failed to execute task",
                                                    "createNote"), "upload")

\* understandTask throws (the request fails or the answer is not JSON): the
\* catch of NoteManagementAgent.execute returns
AgentClassifyFails ==
    /\ agent.phase = "classifying"
    /\ agent' = Returned(agent, TaskFailure("Failed to execute task",
                                            "understandTask"), "classifier")
    /\ FsUnchanged

\* understandTask answers with one of the six task types: the wrapper runs
\* the tool and returns
AgentDispatch(taskAnalysis) ==
    /\ agent.phase = "classifying"
    /\ taskAnalysis.taskType \in DOMAIN ToolOfTaskType
    /\ \E res \in {ToolExecute(ToolOfTaskType[taskAnalysis.taskType], vaultPath,
                              Fs, now, taskAnalysis.parameters)} :
       LET type == taskAnalysis.taskType
           name == ToolOfTaskType[type]
           a    == Called([agent EXCEPT !.taskAnalysis = taskAnalysis],
                          name, res.ok)
       IN  /\ Commit(type, taskAnalysis.parameters, res)
           /\ agent' = IF res.ok
                       THEN Returned(a, TaskSuccess(WrapperSuccessMessage[type],
                                                    res.ret), "none")
                       ELSE Returned(a, TaskFailure(WrapperFailureMessage[type],
                                                    name), "tool")

\* understandTask answers with another task type: super.execute(task), which
\* awaits understandTask again
AgentDelegate(taskAnalysis) ==
    /\ agent.phase = "classifying"
    /\ taskAnalysis.taskType \notin DOMAIN ToolOfTaskType
    /\ agent' = [agent EXCEPT !.phase = "understanding",
                              !.taskAnalysis = taskAnalysis]
    /\ FsUnchanged

\* BaseAgent.execute: understandTask throws
BaseUnderstandFails ==
    /\ agent.phase = "understanding"
    /\ agent' = Returned(agent, TaskFailure("Task execution failed",
                                            "understandTask"), "understanding")
    /\ FsUnchanged

\* BaseAgent.selectTools: the registered tools the answer names
selectTools(taskUnderstanding) ==
    {n \in ToolNames : n \in SeqToSet(taskUnderstanding.requiredTools)}

\* BaseAgent.execute: understandTask answers, selectTools filters, and
\* createExecutionPlan is awaited
BaseUnderstood(taskUnderstanding) ==
    /\ agent.phase = "understanding"
    /\ agent' = [agent EXCEPT !.phase = "planning",
                              !.taskUnderstanding = taskUnderstanding,
                              !.selectedTools = selectTools(taskUnderstanding)]
    /\ FsUnchanged

\* BaseAgent.execute: createExecutionPlan throws
BasePlanFails ==
    /\ agent.phase = "planning"
    /\ agent' = Returned(agent, TaskFailure("Task execution failed",
                                            "createExecutionPlan"), "planning")
    /\ FsUnchanged

\* BaseAgent.execute: createExecutionPlan answers with the steps member of
\* the parsed object (Omitted when the object has none: for..of then throws)
\* and executePlan is entered
BasePlanned(answer) ==
    /\ agent.phase = "planning"
    /\ agent' = IF answer.some
                THEN [agent EXCEPT !.phase = "executing",
                                   !.executionPlan = answer.v, !.results = <<>>]
                ELSE Returned(agent, TaskFailure("Task execution failed",
                                                 "executePlan"), "plan")
    /\ FsUnchanged

\* StepStart without the await: the next step is begun while the previous
\* one is still running
StepStartEager ==
    /\ agent.phase \in {"executing", "running"}
    /\ Len(agent.started) < Len(agent.executionPlan)
    /\ LET k    == Len(agent.started) + 1
           step == agent.executionPlan[k]
           a    == [agent EXCEPT !.started = Append(@, k)]
       IN  agent' = IF step.toolName \in ToolNames
                    THEN [a EXCEPT !.phase = "running", !.running = k]
                    ELSE Returned(a, TaskFailure("Task execution failed",
                                                 step.toolName), "step")
    /\ FsUnchanged

\* executePlan: the next iteration of the loop calls executeStep, which
\* looks the tool up and calls its execute
StepStart ==
    /\ agent.phase = "executing"
    /\ Len(agent.results) < Len(agent.executionPlan)
    /\ LET k    == Len(agent.results) + 1
           step == agent.executionPlan[k]
           a    == [agent EXCEPT !.started = Append(@, k)]
       IN  agent' = IF step.toolName \in ToolNames
                    THEN [a EXCEPT !.phase = "running", !.running = k]
                    ELSE Returned(a, TaskFailure("Task execution failed",
                                                 step.toolName), "step")
    /\ FsUnchanged

\* StepFinish with the error of the tool swallowed: the loop goes on with
\* the next step
StepFinishSwallow ==
    /\ agent.phase = "running"
    /\ \E res \in {ToolExecute(agent.executionPlan[agent.running].toolName,
                              vaultPath, Fs, now,
                              agent.executionPlan[agent.running].parameters)} :
       LET step == agent.executionPlan[agent.running]
           a    == Called(agent, step.toolName, res.ok)
       IN  /\ Commit(TaskTypeOfTool[step.toolName], step.parameters, res)
           /\ agent' = [a EXCEPT !.phase = "executing", !.running = 0,
                                 !.results = Append(@, res.ret)]

\* StepFinish that undoes the task when the tool throws: the file system
\* is put back to what it was when execute was called
StepFinishRollback ==
    /\ agent.phase = "running"
    /\ \E r \in {ToolExecute(agent.executionPlan[agent.running].toolName,
                            vaultPath, Fs, now,
                            agent.executionPlan[agent.running].parameters)} :
       LET step == agent.executionPlan[agent.running]
           res  == IF r.ok THEN r ELSE [r EXCEPT !.fs = agent.entry]
           a    == Called(agent, step.toolName, res.ok)
       IN  /\ Commit(TaskTypeOfTool[step.toolName], step.parameters, res)
           /\ agent' = IF res.ok
                       THEN [a EXCEPT !.phase = "executing", !.running = 0,
                                      !.results = Append(@, res.ret)]
                       ELSE Returned(a, TaskFailure("Task execution failed",
                                                    step.toolName), "tool")

\* the awaited tool.execute of the running step settles: its result is
\* pushed, or its error leaves executePlan and is caught by execute
StepFinish ==
    /\ agent.phase = "running"
    /\ \E res \in {ToolExecute(agent.executionPlan[agent.running].toolName,
                              vaultPath, Fs, now,
                              agent.executionPlan[agent.running].parameters)} :
       LET step == agent.executionPlan[agent.running]
           a    == Called(agent, step.toolName, res.ok)
       IN  /\ Commit(TaskTypeOfTool[step.toolName], step.parameters, res)
           /\ agent' = IF res.ok
                       THEN [a EXCEPT !.phase = "executing", !.running = 0,
                                      !.results = Append(@, res.ret)]
                       ELSE Returned(a, TaskFailure("Task execution failed",
                                                    step.toolName), "tool")

\* PlanDone without the loop condition: executePlan returns after any step
PlanDoneEarly ==
    /\ agent.phase = "executing"
    /\ agent' = Returned(agent, TaskSuccess("Task completed successfully",
                                            agent.results), "none")
    /\ FsUnchanged

\* executePlan returns the results and execute returns success
PlanDone ==
    /\ agent.phase = "executing"
    /\ Len(agent.results) = Len(agent.executionPlan)
    /\ agent' = Returned(agent, TaskSuccess("Task completed successfully",
                                            agent.results), "none")
    /\ FsUnchanged

(***************************************************************************)
(* SpecAgent: one task of the NoteManagementAgent over the tagged vault,   *)
(* with and without an uploaded file, for every answer of the language     *)
(* model below.                                                            *)
(***************************************************************************)
UploadedFiles ==
    { [path |-> "/tmp/u.txt", name |-> "u.txt", type |-> "text/plain"] }

AgentCreateParams ==
    [title |-> "Ideas", content |-> "", template |-> "", folder |-> "",
     tags |-> <<"draft">>, frontmatter |-> NoFrontmatter]

AgentUpdateParams(notePath) ==
    [notePath |-> notePath, title |-> "", content |-> "new", tags |-> Omitted,
     frontmatter |-> NoFrontmatter]

AgentTagParams(tag, notePath) ==
    [type |-> "add", tag |-> tag, newTag |-> "",
     notePaths |-> Given(<<notePath>>)]

\* answers of understandTask with one of the six task types
DirectAnalyses ==
    { [taskType |-> "create", parameters |-> AgentCreateParams,
       requiredTools |-> <<"note_creation">>],
      [taskType |-> "update", parameters |-> AgentUpdateParams("a.md"),
       requiredTools |-> <<"note_update">>],
      [taskType |-> "update", parameters |-> AgentUpdateParams("q.md"),
       requiredTools |-> <<"note_update">>],
      [taskType |-> "delete", parameters |-> [notePath |-> "a.md"],
       requiredTools |-> <<"note_deletion">>],
      [taskType |-> "move",
       parameters |-> [sourcePath |-> "a.md", destinationPath |-> "c.md",
                       newTitle |-> "", updateLinks |-> TRUE],
       requiredTools |-> <<"note_move">>],
      [taskType |-> "tag", parameters |-> AgentTagParams("z", "a.md"),
       requiredTools |-> <<"tag_management">>],
      [taskType |-> "folder",
       parameters |-> [type |-> "create", sourcePath |-> "n",
                       destinationPath |-> ""],
       requiredTools |-> <<"folder_operation">>] }

\* answers of understandTask with any other task type
OtherAnalyses ==
    { [taskType |-> "organize", parameters |-> <<>>, requiredTools |-> r] :
        r \in { <<"note_creation", "tag_management">>,
                <<"note_creation", "bogus">> } }

CreateStep == [toolName |-> "note_creation", parameters |-> AgentCreateParams]

TagStep(tag) ==
    [toolName |-> "tag_management",
     parameters |-> AgentTagParams(tag, "ideas.md")]

MissingUpdateStep ==
    [toolName |-> "note_update", parameters |-> AgentUpdateParams("q.md")]

DeleteStep == [toolName |-> "note_deletion", parameters |-> [notePath |-> "a.md"]]

BogusStep == [toolName |-> "bogus", parameters |-> <<>>]

\* tags the new note, then fails at a note that does not exist
PartialTagStep ==
    [toolName |-> "tag_management",
     parameters |-> [type |-> "add", tag |-> "reviewed", newTag |-> "",
                     notePaths |-> Given(<<"ideas.md", "q.md">>)]]

\* answers of createExecutionPlan: the steps member of the parsed object
Plans ==
    { Given(<<>>),
      Given(<<CreateStep, TagStep("reviewed")>>),
      Given(<<CreateStep, TagStep("draft")>>),
      Given(<<CreateStep, MissingUpdateStep, DeleteStep>>),
      Given(<<CreateStep, BogusStep, DeleteStep>>),
      Given(<<CreateStep, PartialTagStep, DeleteStep>>),
      Omitted }

InitAgent ==
    \E vp \in VaultPaths : InitWith(vp, VaultFs(vp, TagLayout(<<"x">>), <<>>))

NextAgent ==
    \/ AgentExecute
    \/ \E uploadedFile \in UploadedFiles : AgentExecuteUpload(uploadedFile)
    \/ AgentClassifyFails
    \/ \E taskAnalysis \in DirectAnalyses : AgentDispatch(taskAnalysis)
    \/ \E taskAnalysis \in OtherAnalyses : AgentDelegate(taskAnalysis)
    \/ BaseUnderstandFails
    \/ \E taskUnderstanding \in OtherAnalyses : BaseUnderstood(taskUnderstanding)
    \/ BasePlanFails
    \/ \E answer \in Plans : BasePlanned(answer)
    \/ StepStart
    \/ StepFinish
    \/ PlanDone

SpecAgent == InitAgent /\ [][NextAgent]_vars

HasReturned == agent.phase = "returned"

\* the steps of the plan whose outcome, result or error, is recorded
Recorded ==
    Len(agent.results)
      + (IF HasReturned /\ agent.failedAt \in {"step", "tool"}
            /\ agent.started # <<>> THEN 1 ELSE 0)

\* C11: the steps of a plan run one after the other: steps are begun in plan
\* order, step n+1 is begun only when the outcome of step n is recorded, and
\* at most one step is in progress.
C11_StepsRunSequentially ==
    /\ \A i \in 1..Len(agent.started) : agent.started[i] = i
    /\ Len(agent.started) <= Len(agent.executionPlan)
    /\ agent.running # 0 =>
          /\ agent.running = Len(agent.started)
          /\ Recorded = agent.running - 1
    /\ agent.running = 0 => Recorded = Len(agent.started)

\* the second step of a plan is in progress, the first one recorded
C11_Witness ==
    /\ agent.phase = "running"
    /\ agent.running = 2
    /\ Len(agent.results) = 1

\* the answer of understandTask names a tool that is not registered
UnknownRequired ==
    /\ agent.taskUnderstanding # <<>>
    /\ \E n \in SeqToSet(agent.taskUnderstanding.requiredTools) :
          n \notin ToolNames

\* C12: when requiredTools names a tool that is not registered, no plan step
\* is ever begun and the task returns a failure.
C12_UnknownRequiredToolFailsPlanning ==
    UnknownRequired =>
        /\ agent.started = <<>>
        /\ agent.calls = <<>>
        /\ HasReturned => ~agent.result.success

\* C13: the agent returns success only if every tool call of the task
\* succeeded, and, for a plan, only if every step of the plan was executed.
C13_SuccessOnlyIfEveryStepSucceeded ==
    (HasReturned /\ agent.result.success) =>
        /\ \A i \in 1..Len(agent.calls) : agent.calls[i].ok
        /\ agent.failedAt = "none"
        /\ agent.taskUnderstanding # <<>> =>
              /\ Len(agent.results) = Len(agent.executionPlan)
              /\ Len(agent.started) = Len(agent.executionPlan)

\* a plan of two steps has returned success
C13_Witness ==
    /\ HasReturned
    /\ agent.result.success
    /\ Len(agent.executionPlan) = 2
    /\ Len(agent.results) = 2

\* C14: when understandTask fails the task returns a failure, no tool has
\* been executed and the file system is as it was when execute was called.
C14_ClassifierFailureTouchesNothing ==
    (HasReturned /\ agent.failedAt \in {"classifier", "understanding"}) =>
        /\ ~agent.result.success
        /\ agent.calls = <<>>
        /\ Fs = agent.entry

\* the classifier, the planner or a tool has thrown in the task of a
Raised(a) ==
    \/ a.failedAt # "none"
    \/ \E i \in 1..Len(a.calls) : ~a.calls[i].ok

\* result is a TaskResult: {success, message} with data or error
IsTaskResult(result) ==
    /\ DOMAIN result \in {{"success", "message", "data"},
                          {"success", "message", "error"}}
    /\ result.success \in BOOLEAN

\* how far execute is from returning: the awaits still ahead, then the work
\* left in the loop of executePlan
Measure(a) ==
    CASE a.phase = "idle" -> <<5, 0>>
      [] a.phase = "classifying" -> <<4, 0>>
      [] a.phase = "understanding" -> <<3, 0>>
      [] a.phase = "planning" -> <<2, 0>>
      [] a.phase = "executing" ->
           <<1, 2 * (Len(a.executionPlan) - Len(a.results)) + 1>>
      [] a.phase = "running" ->
           <<1, 2 * (Len(a.executionPlan) - Len(a.results))>>
      [] OTHER -> <<0, 0>>

Less(m, n) == m[1] < n[1] \/ (m[1] = n[1] /\ m[2] < n[2])

\* C15: execute always ends by returning a TaskResult: every step of the
\* agent brings it closer to the return (no await is repeated, the loop is
\* bounded by the plan), it never leaves through an exception, and the
\* result it returns has success = false whenever the classifier, the
\* planner or a tool has thrown.
C15_EveryFailureIsReturned ==
    [][/\ agent' # agent => Less(Measure(agent'), Measure(agent))
       /\ agent'.phase \in {"idle", "classifying", "understanding", "planning",
                            "executing", "running", "returned"}
       /\ agent'.phase = "executing" =>
             Len(agent'.results) <= Len(agent'.executionPlan)
       /\ agent'.phase = "returned" =>
             /\ IsTaskResult(agent'.result)
             /\ Raised(agent') => ~agent'.result.success]_vars

\* a tool of a plan has thrown and execute has returned the failure
C15_Witness ==
    /\ HasReturned
    /\ agent.failedAt = "tool"
    /\ Len(agent.results) >= 1
    /\ ~agent.result.success

(***************************************************************************)
(* SpecFaults: the single-note tools over the tagged vault when the        *)
(* operating system rejects one of the calls that change the file system   *)
(* (n = 0: none is rejected), and when the note they name is missing.      *)
(***************************************************************************)
DoNoteCreateFaulty(params, n) ==
    /\ steps < MaxSteps
    /\ Commit("create", params,
              NoteCreate(vaultPath, WithFault(Fs, n), now, params))
    /\ UNCHANGED agent

DoNoteUpdateFaulty(params, n) ==
    /\ steps < MaxSteps
    /\ Commit("update", params,
              NoteUpdate(vaultPath, WithFault(Fs, n), now, params))
    /\ UNCHANGED agent

DoNoteDeleteFaulty(params, n) ==
    /\ steps < MaxSteps
    /\ Commit("delete", params,
              NoteDelete(vaultPath, WithFault(Fs, n), params.notePath))
    /\ UNCHANGED agent

DoNoteMoveFaulty(params, n) ==
    /\ steps < MaxSteps
    /\ Commit("move", params,
              NoteMove(vaultPath, WithFault(Fs, n), now, params))
    /\ UNCHANGED agent

FaultCreates ==
    { [title |-> "Ideas", content |-> "c", template |-> "", folder |-> f,
       tags |-> <<"draft">>, frontmatter |-> NoFrontmatter] :
        f \in {"", "n"} }

FaultUpdates == { AgentUpdateParams(r) : r \in {"a.md", "q.md"} }

FaultDeletes == { [notePath |-> r] : r \in {"a.md", "q.md"} }

FaultMoves ==
    { [sourcePath |-> m[1], destinationPath |-> m[2], newTitle |-> "",
       updateLinks |-> TRUE] :
        m \in { <<"a.md", "n/c.md">>, <<"a.md", "d/b.md">>,
                <<"q.md", "c.md">> } }

InitFaults ==
    \E vp \in VaultPaths : InitWith(vp, VaultFs(vp, TagLayout(<<"x">>), <<>>))

NextFaults ==
    \/ \E params \in FaultCreates, n \in 0..MaxFault :
          DoNoteCreateFaulty(params, n)
    \/ \E params \in FaultUpdates, n \in 0..MaxFault :
          DoNoteUpdateFaulty(params, n)
    \/ \E params \in FaultDeletes, n \in 0..MaxFault :
          DoNoteDeleteFaulty(params, n)
    \/ \E params \in FaultMoves, n \in 0..MaxFault :
          DoNoteMoveFaulty(params, n)

SpecFaults == InitFaults /\ [][NextFaults]_vars

\* C16: a note create, update, delete or move that reports failure leaves
\* the file system (documents, folders, contents) as it was before the call.
C16_SingleDocumentFailureIsAtomic ==
    (last.op \in {"create", "update", "delete", "move"} /\ ~last.ok) =>
        Fs = pre

(***************************************************************************)
(* SpecMerge: one note_update call on a.md for every combination of an     *)
(* omitted, an empty and a non-empty title, content, tags and frontmatter  *)
(* parameter, at any time of the clock.                                    *)
(***************************************************************************)
\* an optional string parameter that the caller left out
OmittedText == [some |-> FALSE, v |-> ""]

\* the parameters of an update call; supplied records which of title and
\* content the caller passed (an omitted and an empty string are both falsy)
UpdateCall(notePath, title, content, tags, frontmatter) ==
    [notePath |-> notePath, title |-> title.v, content |-> content.v,
     tags |-> tags, frontmatter |-> frontmatter,
     supplied |-> {k \in {"title", "content"} :
                      IF k = "title" THEN title.some ELSE content.some}]

MergeUpdates ==
    { UpdateCall("a.md", title, content, tags, frontmatter) :
        title \in {OmittedText, Given(""), Given("T2")},
        content \in {OmittedText, Given(""), Given("new")},
        tags \in {Omitted, Given(<<>>), Given(<<"q">>)},
        frontmatter \in {NoFrontmatter, ("status" :> "s"),
                         ("title" :> "FT") @@ ("status" :> "s")} }

\* the first call made on the vault
FirstNoteUpdate(params) ==
    /\ last = NoCall
    /\ DoNoteUpdate(params)

InitMerge ==
    \E vp \in VaultPaths : InitWith(vp, VaultFs(vp, PathLayout, <<>>))

NextMerge ==
    \/ \E params \in MergeUpdates : FirstNoteUpdate(params)
    \/ Tick

SpecMerge == InitMerge /\ [][NextMerge]_vars

UpdateDone == LastIs("update") /\ last.ok

UpdatedPath == PathJoin(vaultPath, last.params.notePath)

\* C17: after an update every field the caller supplied (title, content,
\* tags, each frontmatter key; an empty string or list counts as supplied,
\* and so does a title inside the frontmatter parameter) has the supplied
\* value, every field the caller omitted has the value stored before, and
\* modified is the time of the call.
C17_UpdateMergesFieldByField ==
    UpdateDone =>
        LET q    == last.params
            old  == pre.files[UpdatedPath]
            new  == files[UpdatedPath]
            computed == {"title", "tags", "modified"}
            wantTitle ==
                IF "title" \in q.supplied THEN q.title
                ELSE IF Has(q.frontmatter, "title") THEN q.frontmatter["title"]
                ELSE old.fm["title"]
            wantTags ==
                IF q.tags.some THEN q.tags.v
                ELSE IF Has(q.frontmatter, "tags") THEN q.frontmatter["tags"]
                ELSE old.fm["tags"]
            wantBody ==
                IF "content" \in q.supplied THEN q.content ELSE old.body
        IN  /\ new.fm["title"] = wantTitle
            /\ new.fm["tags"] = wantTags
            /\ new.body = wantBody
            /\ new.fm["modified"] = last.at
            /\ \A k \in DOMAIN q.frontmatter \ computed :
                  new.fm[k] = q.frontmatter[k]
            /\ \A k \in DOMAIN old.fm \ (DOMAIN q.frontmatter \cup computed) :
                  new.fm[k] = old.fm[k]

\* the last call was an update or a delete of a path that held no document
MissingTarget ==
    /\ last.op \in {"update", "delete"}
    /\ PathJoin(vaultPath, last.params.notePath) \notin DOMAIN pre.files

DeletedPath == PathJoin(vaultPath, last.params.notePath)

DeletedFolder == PathJoin(vaultPath, last.params.sourcePath)

Unchanged(p) == p \in DOMAIN files /\ files[p] = pre.files[p]

\* C19: deleting an existing note, or a folder, succeeds and changes no
\* document other than the deleted ones: links to them stay as they were.
C19_DeleteChangesNoSurvivor ==
    /\ (LastIs("delete") /\ DeletedPath \in DOMAIN pre.files) =>
          /\ last.ok
          /\ DeletedPath \notin DOMAIN files
          /\ \A p \in DOMAIN pre.files \ {DeletedPath} : Unchanged(p)
    /\ (LastIs("folder") /\ last.params.type = "delete") =>
          /\ last.ok
          /\ \A p \in DOMAIN pre.files :
                IF p = DeletedFolder \/ Under(p, DeletedFolder)
                THEN p \notin DOMAIN files
                ELSE Unchanged(p)

\* a note has been deleted and another note still holds the link to it
C19_Witness ==
    /\ LastIs("delete")
    /\ last.ok
    /\ \E p \in DOMAIN files :
          IndexFrom(files[p].body,
                    "[[" \o pathToWikiLink(last.params.notePath) \o "]]", 1) # 0

\* the plan creates a note and then adds a tag to the note at the created
\* path, and both steps are over
CreateThenTag ==
    /\ Len(agent.executionPlan) >= 2
    /\ Len(agent.started) >= 2
    /\ agent.running = 0
    /\ LastIs("tag")
    /\ LET create == agent.executionPlan[1]
           tag    == agent.executionPlan[2]
       IN  /\ create.toolName = "note_creation"
           /\ tag.toolName = "tag_management"
           /\ tag.parameters.type = "add"
           /\ tag.parameters.notePaths.some
           /\ Len(tag.parameters.notePaths.v) = 1
           /\ PathJoin(vaultPath, tag.parameters.notePaths.v[1])
                = PathJoin(PathJoin(vaultPath, create.parameters.folder),
                           sanitizeFilename(create.parameters.title) \o ".md")

\* C20: create followed by tag add(t) on the created path succeeds, and the
\* tag set of the note is then the created tags plus t.
C20_CreateThenTag ==
    CreateThenTag =>
        LET create == agent.executionPlan[1].parameters
            tag    == agent.executionPlan[2].parameters
            p      == PathJoin(vaultPath, tag.notePaths.v[1])
        IN  /\ last.ok
            /\ p \in DOMAIN files
            /\ SeqToSet(TagsAt(Fs, p)) = SeqToSet(create.tags) \cup {tag.tag}

\* create(Ideas, [draft]) then add(reviewed) has left {draft, reviewed}
C20_Witness ==
    /\ CreateThenTag
    /\ agent.executionPlan[1].parameters.title = "Ideas"
    /\ agent.executionPlan[2].parameters.tag = "reviewed"
    /\ last.ok
    /\ SeqToSet(TagsAt(Fs, PathJoin(vaultPath, "ideas.md")))
         = {"draft", "reviewed"}

(***************************************************************************)
(* SpecStats: folder operations over folder trees, some of whose           *)
(* directories cannot be read.                                             *)
(***************************************************************************)
\* folders f (three notes, one subfolder s) and g (notes at three depths and
\* a file that is no note); s holds a note or is empty
StatsLayouts ==
    { ("f/a.md" :> Note("A", <<>>, "a")) @@ ("f/b.md" :> Note("B", <<>>, "b"))
        @@ ("f/c.md" :> Note("C", <<>>, "c")) @@ inS
        @@ ("g/a.md" :> Note("A", <<>>, "a"))
        @@ ("g/s/b.MD" :> Note("B", <<>>, "b"))
        @@ ("g/s/t/c.md" :> Note("C", <<>>, "c"))
        @@ ("g/s/n.txt" :> Note("N", <<>>, "n")) :
        inS \in { <<>>, ("f/s/d.md" :> Note("D", <<>>, "d")) } }

\* the file system of layout below vp, with the empty folders f/s and e
StatsFs(vp, layout) ==
    LET fs == VaultFs(vp, layout, <<>>)
    IN  [fs EXCEPT !.dirs = @ \cup Ancestors(PathJoin(vp, "f/s"))
                              \cup Ancestors(PathJoin(vp, "e"))]

\* denied: the vault-relative directories that cannot be read during the call
StatsOperations ==
    { [type |-> "create", sourcePath |-> r, destinationPath |-> "",
       denied |-> D] :
        r \in {"f", "g", "e", "h"}, D \in {{}, {"f/s"}, {"g/s/t"}, {"g"}} }
      \cup { [type |-> "delete", sourcePath |-> r, destinationPath |-> "",
              denied |-> D] :
                r \in {"f", "g/s", "f/a.md"}, D \in {{}, {"f/s"}, {"g/s/t"}} }
      \cup { [type |-> "move", sourcePath |-> r, destinationPath |-> "h",
              denied |-> {}] : r \in {"f", "g"} }

\* FolderOperationTool.execute while the directories of operation.denied
\* cannot be read
DoFolderOperateDenied(operation) ==
    /\ steps < MaxSteps
    /\ Commit("folder", operation,
              FolderOperate(vaultPath,
                            WithDenied(Fs, {PathJoin(vaultPath, d) :
                                               d \in operation.denied}),
                            operation))
    /\ UNCHANGED agent

InitStats ==
    \E vp \in VaultPaths, layout \in StatsLayouts :
        InitWith(vp, StatsFs(vp, layout))

NextStats ==
    \/ \E operation \in StatsOperations : DoFolderOperateDenied(operation)
    \/ Tick

SpecStats == InitStats /\ [][NextStats]_vars

\* the folder the stats of the last call are about, and the file system
\* they were taken from
StatsTarget ==
    PathJoin(vaultPath, IF last.params.type = "move"
                        THEN last.params.destinationPath
                        ELSE last.params.sourcePath)

StatsFsRead == IF last.params.type = "delete" THEN pre ELSE Fs

\* the directories that could not be read while the stats were taken
StatsDenied == {PathJoin(vaultPath, d) : d \in last.params.denied}

\* y lies below a directory of the folder that cannot be read
StatsHidden(y) ==
    \E d \in StatsDenied :
        (d = StatsTarget \/ Under(d, StatsTarget)) /\ Under(y, d)

\* C21: the stats a successful folder operation returns count every note
\* and every folder anywhere below the folder, save those below a directory
\* that cannot be read, which count nothing; and creating a folder succeeds
\* whenever its mkdir does, whatever cannot be read
C21_StatsIsRecursiveAggregate ==
    (LastIs("folder") /\ "denied" \in DOMAIN last.params) =>
        /\ last.ok =>
              /\ last.ret.noteCount =
                    Cardinality({q \in DOMAIN StatsFsRead.files :
                                    /\ IsMd(q) /\ Under(q, StatsTarget)
                                    /\ ~StatsHidden(q)})
              /\ last.ret.subfolderCount =
                    Cardinality({e \in StatsFsRead.dirs :
                                    Under(e, StatsTarget) /\ ~StatsHidden(e)})
        /\ last.params.type = "create" =>
              last.ok = Mkdirp(pre, StatsTarget).ok

\* C21 witness: the stats of a folder with three notes and one subfolder
\* that holds a note but cannot be read are {3, 1}
C21_Witness ==
    /\ LastIs("folder") /\ last.ok
    /\ "denied" \in DOMAIN last.params
    /\ last.params.sourcePath = "f"
    /\ last.params.denied = {"f/s"}
    /\ PathJoin(vaultPath, "f/s/d.md") \in DOMAIN StatsFsRead.files
    /\ last.ret.noteCount = 3
    /\ last.ret.subfolderCount = 1

(***************************************************************************)
(* SpecSiblings: the tag operations and the cascade of a note move over    *)
(* three notes, while one of them cannot be read (denied) or the n-th      *)
(* write is rejected (fault).                                              *)
(***************************************************************************)
\* a.md, b.md and c.md carry tag x and link to m; m.md is the note moved
SiblingLayout ==
    ("a.md" :> Note("A", <<"x">>, "see [[m]]"))
      @@ ("b.md" :> Note("B", <<"x">>, "see [[m]]"))
      @@ ("c.md" :> Note("C", <<"x">>, "see [[m]]"))
      @@ ("m.md" :> Note("M", <<>>, "m"))

Siblings == {"a.md", "b.md", "c.md"}

\* the orders in which the three notes are named in notePaths
SiblingOrders ==
    { <<"a.md", "b.md", "c.md">>, <<"b.md", "a.md", "c.md">>,
      <<"c.md", "b.md", "a.md">> }

\* denied and fault say what goes wrong during the call
SiblingTagOperations ==
    { [type |-> t, tag |-> IF t = "add" THEN "y" ELSE "x", newTag |-> "",
       notePaths |-> Given(o), denied |-> D, fault |-> n] :
        t \in {"add", "remove"}, o \in SiblingOrders,
        D \in {{}} \cup {{d} : d \in Siblings}, n \in {0} }
      \cup
    { [type |-> t, tag |-> IF t = "add" THEN "y" ELSE "x", newTag |-> "",
       notePaths |-> Given(o), denied |-> {}, fault |-> n] :
        t \in {"add", "remove"}, o \in SiblingOrders, n \in 1..MaxFault }
      \cup
    { [type |-> "rename", tag |-> "x", newTag |-> "z", notePaths |-> Omitted,
       denied |-> D, fault |-> 0] : D \in {{}} \cup {{d} : d \in Siblings} }

SiblingMoves ==
    { [sourcePath |-> "m.md", destinationPath |-> "k.md", newTitle |-> "",
       updateLinks |-> TRUE, denied |-> D, fault |-> 0] :
        D \in {{}} \cup {{d} : d \in Siblings} }

\* the file system the call of params meets
SiblingFs(params) ==
    IF params.fault > 0 THEN WithFault(Fs, params.fault)
    ELSE WithDenied(Fs, {PathJoin(vaultPath, d) : d \in params.denied})

DoTagManageSiblings(operation) ==
    /\ steps < MaxSteps
    /\ Commit("tag", operation,
              TagManage(vaultPath, SiblingFs(operation), now, operation))
    /\ UNCHANGED agent

DoNoteMoveSiblings(params) ==
    /\ steps < MaxSteps
    /\ Commit("move", params,
              NoteMove(vaultPath, SiblingFs(params), now, params))
    /\ UNCHANGED agent

InitSiblings ==
    \E vp \in VaultPaths : InitWith(vp, VaultFs(vp, SiblingLayout, <<>>))

NextSiblings ==
    \/ \E operation \in SiblingTagOperations : DoTagManageSiblings(operation)
    \/ \E params \in SiblingMoves : DoNoteMoveSiblings(params)
    \/ Tick

SpecSiblings == InitSiblings /\ [][NextSiblings]_vars

\* the last call is a multi-document operation of SpecSiblings
SiblingCall ==
    /\ last.op \in {"tag", "move"}
    /\ "denied" \in DOMAIN last.params

\* the documents in scope of the last call that could be read
SiblingScope ==
    {PathJoin(vaultPath, d) : d \in Siblings \ last.params.denied}
      \cap DOMAIN pre.files

\* the operation has something to do in document q
SiblingNeeds(q) ==
    IF last.op = "move"
    THEN MoveReplace(pathToWikiLink(last.params.sourcePath),
                     pathToWikiLink(last.params.destinationPath),
                     pre.files[q].body) # pre.files[q].body
    ELSE TagEdit(last.params, TagsAt(pre, q)).hit

\* the notes in scope the operation should have changed and has not
SiblingsSkipped ==
    {q \in SiblingScope : SiblingNeeds(q) /\ files[q] = pre.files[q]}

\* C22: in a tag operation or a cascade in which one document cannot be
\* read or written, every other document in scope is processed, and the
\* operation fails only if it processed none
C22_FailureSparesSiblings ==
    SiblingCall =>
        /\ Cardinality(SiblingsSkipped)
              <= (IF last.params.fault > 0 THEN 1 ELSE 0)
        /\ ~last.ok => Fs = pre

(***************************************************************************)
(* SpecInvalid: the tools called with parameters that break their          *)
(* contract, among calls that keep it.                                     *)
(***************************************************************************)
InvalidCreates ==
    { [title |-> Undefined, content |-> "c", template |-> "", folder |-> f,
       tags |-> <<>>, frontmatter |-> NoFrontmatter] : f \in {"", "n"} }

InvalidUpdates ==
    { [notePath |-> Undefined, title |-> "T", content |-> "c", tags |-> Omitted,
       frontmatter |-> NoFrontmatter] }

InvalidDeletes == { [notePath |-> Undefined] }

\* no tag; an operation type the tool does not know; rename without newTag
InvalidTagOperations ==
    { [type |-> t, tag |-> Undefined, newTag |-> IF t = "rename" THEN "z" ELSE "",
       notePaths |-> scope] :
        t \in {"add", "remove", "rename"},
        scope \in {Omitted, Given(<<"a.md">>), Given(<<"a.md", "d/b.md">>)} }
      \cup { [type |-> "merge", tag |-> "x", newTag |-> "y", notePaths |-> Omitted],
              [type |-> "rename", tag |-> "x", newTag |-> "",
               notePaths |-> Omitted] }

\* an operation type the tool does not know; rename without destinationPath
InvalidFolderOperations ==
    { [type |-> "copy", sourcePath |-> "d", destinationPath |-> "e"],
      [type |-> "rename", sourcePath |-> "d", destinationPath |-> ""] }

InitInvalid ==
    \E vp \in VaultPaths, tagsOfA \in {<<"x">>, <<"y">>} :
        InitWith(vp, VaultFs(vp, TagLayout(tagsOfA), <<>>))

NextInvalid ==
    \/ \E params \in InvalidCreates \cup TagCreates : DoNoteCreate(params)
    \/ \E params \in InvalidUpdates \cup TagUpdates : DoNoteUpdate(params)
    \/ \E params \in InvalidDeletes \cup TagDeletes : DoNoteDelete(params)
    \/ \E operation \in InvalidTagOperations : DoTagManage(operation)
    \/ \E operation \in InvalidFolderOperations : DoFolderOperate(operation)
    \/ Tick

SpecInvalid == InitInvalid /\ [][NextInvalid]_vars

\* the parameters of the last call break the contract of its tool
InvalidCall ==
    \/ LastIs("create") /\ last.params \in InvalidCreates
    \/ LastIs("update") /\ last.params \in InvalidUpdates
    \/ LastIs("delete") /\ last.params \in InvalidDeletes
    \/ LastIs("tag") /\ last.params \in InvalidTagOperations
    \/ LastIs("folder") /\ last.params \in InvalidFolderOperations

\* C23: a call whose parameters break the contract of the tool fails and
\* has written nothing
C23_InvalidParametersAreRejected ==
    InvalidCall => (~last.ok /\ Fs = pre)

(***************************************************************************)
(* SpecConcurrent: two tool calls started together (both promises pending  *)
(* at once).  Every await of a call is a point where the other call may    *)
(* run: a call proceeds from await to await.  The awaits before the loop   *)
(* of a call touch only its own note and are taken as one step; in the     *)
(* loop the readFile and the writeFile of each document are steps of their *)
(* own.  A call is [tool, params, phase, files, k, content, ok] with the    *)
(* history fields order (1 for the call started first, 2 for the second)   *)
(* and alone (no other call was between its awaits when it started).       *)
(***************************************************************************)
NoDoc == [fm |-> <<>>, body |-> ""]

NewCall(tool, params) ==
    [tool |-> tool, params |-> params, phase |-> "ready", files |-> <<>>,
     k |-> 0, content |-> NoDoc, ok |-> TRUE, order |-> 0, alone |-> TRUE]

\* the call has left its tool: returned (ok) or thrown
Settled(c, ok) == [c EXCEPT !.phase = "done", !.ok = ok, !.content = NoDoc]

\* the loop of the call goes on with files[k], or is over
LoopAt(c, k) ==
    IF k > Len(c.files) THEN Settled([c EXCEPT !.k = k], TRUE)
    ELSE [c EXCEPT !.phase = "reading", !.k = k, !.content = NoDoc]

\* an error in the loop: updateLinksInVault catches it and the move
\* returns; the tag tool rethrows it
LoopThrows(c) == Settled(c, c.tool = "note_move")

\* the path the loop of the call reads and writes at files[k]
LoopPath(c) ==
    IF c.tool = "note_move" THEN c.files[c.k]
    ELSE PathJoin(vaultPath, c.files[c.k])

\* what the loop body makes of the document it has read
LoopEdit(c, doc) ==
    IF c.tool = "note_move"
    THEN [doc EXCEPT !.body = MoveReplace(pathToWikiLink(c.params.sourcePath),
                                          pathToWikiLink(c.params.destinationPath),
                                          @)]
    ELSE LET e == TagEdit(c.params, TagsOf(doc.fm))
         IN  IF e.hit
             THEN [doc EXCEPT !.fm = ("tags" :> e.tags) @@ ("modified" :> now)
                                        @@ doc.fm]
             ELSE doc

ConcStamp(fs) ==
    [q \in DOMAIN lastMod \cup DOMAIN fs.files |->
        IF q \in DOMAIN fs.files THEN fs.files[q].fm["modified"] ELSE lastMod[q]]

\* the call comes to fs and becomes c
ConcStep(i, c, fs) ==
    /\ inflight' = [inflight EXCEPT ![i] = c]
    /\ files' = fs.files
    /\ dirs' = fs.dirs
    /\ lastMod' = ConcStamp(fs)
    /\ UNCHANGED <<vaultPath, now, steps, last, pre, agent>>

\* execute is called: the call runs up to the first readFile of its loop
ConcStart(i) ==
    /\ i \in DOMAIN inflight
    /\ inflight[i].phase = "ready"
    /\ LET others == DOMAIN inflight \ {i}
           c == [inflight[i] EXCEPT
                   !.order = 1 + Cardinality({j \in others :
                                                inflight[j].phase # "ready"}),
                   !.alone = \A j \in others :
                                inflight[j].phase \in {"ready", "done"}]
       IN  IF c.tool = "note_move"
           THEN LET r   == NoteMove(vaultPath, Fs, now,
                                    [c.params EXCEPT !.updateLinks = FALSE])
                    all == getAllMarkdownFiles(r.fs, vaultPath)
                IN  IF ~r.ok THEN ConcStep(i, Settled(c, FALSE), r.fs)
                    ELSE IF \/ ~c.params.updateLinks
                            \/ ~all.ok
                            \/ ~RegexValid(pathToWikiLink(c.params.sourcePath))
                         THEN ConcStep(i, Settled(c, TRUE), r.fs)
                    ELSE ConcStep(i, LoopAt([c EXCEPT !.files = all.ret], 1),
                                  r.fs)
           ELSE LET scope == IF c.params.type = "rename"
                             THEN getAllMarkdownFiles(Fs, vaultPath)
                             ELSE TagScope(vaultPath, Fs, c.params.notePaths)
                IN  IF \/ c.params.type \notin {"add", "remove", "rename"}
                       \/ c.params.type = "rename" /\ c.params.newTag = ""
                       \/ ~scope.ok
                    THEN ConcStep(i, Settled(c, FALSE), Fs)
                    ELSE ConcStep(i, LoopAt([c EXCEPT !.files = scope.ret], 1),
                                  Fs)

\* the readFile of the loop settles with the document as fs holds it
ConcReadFrom(i, fs) ==
    /\ i \in DOMAIN inflight
    /\ inflight[i].phase = "reading"
    /\ LET c == inflight[i]
           f == LoopPath(c)
       IN  IF ~FileExists(fs, f) THEN ConcStep(i, LoopThrows(c), Fs)
           ELSE IF LoopEdit(c, fs.files[f]) = fs.files[f]
                THEN ConcStep(i, LoopAt(c, c.k + 1), Fs)
           ELSE ConcStep(i, [c EXCEPT !.phase = "writing",
                                      !.content = LoopEdit(c, fs.files[f])], Fs)

\* ConcRead that answers with the document as it was when the calls were
\* made
ConcReadStale(i) == ConcReadFrom(i, pre)

ConcRead(i) == ConcReadFrom(i, Fs)

\* the writeFile of the loop settles
ConcWrite(i) ==
    /\ i \in DOMAIN inflight
    /\ inflight[i].phase = "writing"
    /\ LET c == inflight[i]
           w == WriteFile(Fs, LoopPath(c), c.content)
       IN  IF w.ok THEN ConcStep(i, LoopAt(c, c.k + 1), w.fs)
           ELSE ConcStep(i, LoopThrows(c), w.fs)

\* d.md links to m1 and to m2
ConcLayout ==
    ("d.md" :> Note("D", <<"x">>, "[[m1]] and [[m2|two]]"))
      @@ ("m1.md" :> Note("M1", <<>>, "one"))
      @@ ("m2.md" :> Note("M2", <<>>, "two"))

ConcMove(src, dst) ==
    NewCall("note_move", [sourcePath |-> src, destinationPath |-> dst,
                          newTitle |-> "", updateLinks |-> TRUE])

ConcTag ==
    NewCall("tag_management", [type |-> "add", tag |-> "y", newTag |-> "",
                               notePaths |-> Given(<<"d.md">>)])

ConcPairs ==
    { <<ConcMove("m1.md", "k1.md"), ConcMove("m2.md", "k2.md")>>,
      <<ConcMove("m1.md", "k1.md"), ConcTag>>,
      <<ConcTag, ConcMove("m2.md", "k2.md")>> }

InitConcurrent ==
    \E vp \in VaultPaths, calls \in ConcPairs :
        /\ vaultPath = vp
        /\ files = VaultFs(vp, ConcLayout, <<>>).files
        /\ dirs = VaultFs(vp, ConcLayout, <<>>).dirs
        /\ now = 0
        /\ steps = 0
        /\ last = NoCall
        /\ pre = VaultFs(vp, ConcLayout, <<>>)
        /\ lastMod = [q \in DOMAIN files |-> 0]
        /\ agent = NoTask
        /\ inflight = calls

NextConcurrent ==
    \E i \in 1..2 : ConcStart(i) \/ ConcRead(i) \/ ConcWrite(i)

SpecConcurrent == InitConcurrent /\ [][NextConcurrent]_vars

ConcDone ==
    /\ inflight # <<>>
    /\ \A i \in DOMAIN inflight : inflight[i].phase = "done"

\* the calls ran one after the other
ConcSerial == \A i \in DOMAIN inflight : inflight[i].alone

ConcNth(n) == inflight[CHOOSE i \in DOMAIN inflight : inflight[i].order = n]

\* the two tools run to their end one after the other, in the order the
\* calls were started, from the file system the calls were made on
ConcOneByOne ==
    LET r1 == ToolExecute(ConcNth(1).tool, vaultPath, pre, now, ConcNth(1).params)
        r2 == ToolExecute(ConcNth(2).tool, vaultPath,
                          [files |-> r1.fs.files, dirs |-> r1.fs.dirs], now,
                          ConcNth(2).params)
    IN  [files |-> r2.fs.files, dirs |-> r2.fs.dirs, ok |-> <<r1.ok, r2.ok>>]

\* some document still refers to the old identifier of a move that
\* returned
ConcStale ==
    \E i \in DOMAIN inflight, q \in DOMAIN files :
        /\ inflight[i].tool = "note_move" /\ inflight[i].ok
        /\ \E n \in 1..Len(Refs(files[q].body)) :
              Refs(files[q].body)[n].target
                 = pathToWikiLink(inflight[i].params.sourcePath)

\* the change of a tag call that returned is missing in a note of its scope
ConcUntagged ==
    \E i \in DOMAIN inflight :
        /\ inflight[i].tool = "tag_management" /\ inflight[i].ok
        /\ \E n \in 1..Len(inflight[i].params.notePaths.v) :
              inflight[i].params.tag \notin
                 SeqToSet(TagsAt(Fs, PathJoin(vaultPath,
                                              inflight[i].params.notePaths.v[n])))

\* C24: when two calls started together happen to run one after the other,
\* both return, the changes of both are in the vault, and the vault is what
\* the two tools leave when run in that order; a lost change needs calls
\* that overlap
C24_SerialCallsKeepBothChanges ==
    (ConcDone /\ ConcSerial) =>
        /\ \A i \in DOMAIN inflight : inflight[i].ok
        /\ ~ConcStale /\ ~ConcUntagged
        /\ Fs = [files |-> ConcOneByOne.files, dirs |-> ConcOneByOne.dirs]
        /\ ConcOneByOne.ok = <<TRUE, TRUE>>

\* C24 witness: two calls that overlapped have both returned, both have
\* been through the first document of their loop, and it still holds a
\* reference with the old identifier of a move: the write of one call has
\* been overwritten by the other
C24_Witness ==
    /\ ConcDone
    /\ ~ConcSerial
    /\ \A i \in DOMAIN inflight : inflight[i].ok /\ inflight[i].k >= 2
    /\ ConcStale

(***************************************************************************)
(* Tag rename in place (checked under SpecTags)                            *)
(***************************************************************************)
\* q with every oldTag replaced by newTag where it stands, then without the
\* duplicates that arise
RenamedInPlace(q, oldTag, newTag) ==
    Dedup([k \in 1..Len(q) |-> IF q[k] = oldTag THEN newTag ELSE q[k]], {})

\* C25: after a successful tag rename the tag list of every note that held
\* oldTag is the list before with newTag in the place of oldTag, the other
\* tags in their order, without duplicates
C25_RenameKeepsPosition ==
    (TagCall("rename") /\ last.ok) =>
        \A q \in PreDocs \cap DOMAIN files :
            last.params.tag \in SeqToSet(TagsAt(pre, q)) =>
                TagsAt(Fs, q) = RenamedInPlace(TagsAt(pre, q), last.params.tag,
                                               last.params.newTag)

(***************************************************************************)
(* SpecFrame: note and folder moves over a vault in which p.md and q.md    *)
(* hold no reference to any note or folder that is moved; p.md is also     *)
(* moved to where it is, to give it a new title.                           *)
(***************************************************************************)
FrameLayout ==
    ("foo.md" :> Note("foo", <<>>, ""))
      @@ ("foo/n.md" :> Note("n", <<>>, ""))
      @@ ("c+.md" :> Note("c+", <<>>, ""))
      @@ ("idx.md" :> Note("idx", <<>>, "[[foo]] [[c+]] [[foo/n]]"))
      @@ ("p.md" :> Note("p", <<"t">>, "[[foobar]] [[cc|x]]"))
      @@ ("q.md" :> Note("q", <<>>, "no link, [one] bracket"))

FrameMoves ==
    { [sourcePath |-> m[1], destinationPath |-> m[2], newTitle |-> t,
       updateLinks |-> u] :
        m \in { <<"foo.md", "baz.md">>, <<"c+.md", "z.md">>,
                <<"idx.md", "e/idx.md">>, <<"p.md", "p.md">>,
                <<"p.md", "e/../p.md">> },
        t \in {"", "T"}, u \in BOOLEAN }

FrameFolderMoves ==
    { [type |-> "move", sourcePath |-> "foo", destinationPath |-> "baz"] }

InitFrame ==
    \E vp \in VaultPaths : InitWith(vp, VaultFs(vp, FrameLayout, <<>>))

NextFrame ==
    \/ \E params \in FrameMoves : DoNoteMove(params)
    \/ \E operation \in FrameFolderMoves : DoFolderOperate(operation)
    \/ Tick

SpecFrame == InitFrame /\ [][NextFrame]_vars

\* no reference of body has the target old
NoRefTo(body, old) ==
    \A n \in 1..Len(Refs(body)) : Refs(body)[n].target # old

\* no reference of body has the folder old or something below it as target
NoRefInto(body, old) ==
    \A n \in 1..Len(Refs(body)) :
        /\ Refs(body)[n].target # old
        /\ ~StartsWith(Refs(body)[n].target, old \o "/")

\* the document at q is what it was before the last call
Untouched(q) == q \in DOMAIN files /\ files[q] = pre.files[q]

\* a successful note move without updateLinks changes the destination and
\* the source and nothing else
FrameWithoutLinks ==
    (LastIs("move") /\ last.ok /\ ~last.params.updateLinks) =>
        /\ DOMAIN files \ {MoveDst} = DOMAIN pre.files \ {MoveSrc, MoveDst}
        /\ \A q \in DOMAIN pre.files \ {MoveSrc, MoveDst} : Untouched(q)

\* C26: after a move with its cascade every other document without a
\* reference to the old identifier is what it was before; without
\* updateLinks a note move changes the destination and the source only
C26_CascadeWritesOnlyChangedDocuments ==
    /\ MoveDone =>
          \A q \in DOMAIN pre.files \ {MoveSrc, MoveDst} :
              NoRefTo(pre.files[q].body,
                      pathToWikiLink(last.params.sourcePath)) => Untouched(q)
    /\ FolderMoveDone =>
          \A q \in DOMAIN pre.files :
              (/\ ~Under(q, FolderSrc) /\ ~Under(q, FolderDst)
               /\ NoRefInto(pre.files[q].body,
                            pathToWikiLink(last.params.sourcePath)))
                 => Untouched(q)
    /\ FrameWithoutLinks

(***************************************************************************)
(* A failing plan step (checked under SpecAgent)                           *)
(***************************************************************************)
\* a step of the plan has raised an error: its tool was not found, or its
\* tool threw
PlanStepRaised ==
    /\ agent.started # <<>>
    /\ \/ agent.failedAt = "step"
       \/ \E i \in 1..Len(agent.calls) : ~agent.calls[i].ok

\* the file system when executePlan began: that of the call of execute,
\* with the note of the uploaded file when one was given
PlanBase ==
    IF Len(agent.calls) > 0 /\ Len(agent.calls) > Len(agent.started)
                                  - (IF agent.failedAt = "step" THEN 1 ELSE 0)
    THEN LET r == NoteCreate(vaultPath, agent.entry, now,
                             UploadParams(CHOOSE u \in UploadedFiles : TRUE, now))
         IN  [files |-> r.fs.files, dirs |-> r.fs.dirs]
    ELSE agent.entry

RECURSIVE PlanFs(_, _, _)
\* fs after steps 1..n of plan have been run one after the other
PlanFs(fs, plan, n) ==
    IF n = 0 THEN fs
    ELSE LET r == ToolExecute(plan[n].toolName, vaultPath,
                              PlanFs(fs, plan, n - 1), now, plan[n].parameters)
         IN  [files |-> r.fs.files, dirs |-> r.fs.dirs]

\* what steps 1..k-1 committed, and what step k wrote before it failed
PlanFsAtFailure ==
    LET k == Len(agent.started)
    IN  IF agent.executionPlan[k].toolName \in ToolNames
        THEN PlanFs(PlanBase, agent.executionPlan, k)
        ELSE PlanFs(PlanBase, agent.executionPlan, k - 1)

\* C27: once step k of a plan has raised an error the task has returned a
\* failure, steps 1..k and no other have been started, and the vault holds
\* what steps 1..k-1 committed and what step k wrote before it failed
C27_FailedStepHaltsWithoutRollback ==
    PlanStepRaised =>
        /\ HasReturned /\ ~agent.result.success
        /\ agent.running = 0
        /\ Len(agent.started) = Len(agent.results) + 1
        /\ \A i \in 1..Len(agent.started) : agent.started[i] = i
        /\ Fs = PlanFsAtFailure

\* C27 witness: the second of three steps has failed after writing a note;
\* the note of the first step and the tag the second step wrote are in the
\* vault and the third step has not been started
C27_Witness ==
    /\ PlanStepRaised
    /\ agent.executionPlan = <<CreateStep, PartialTagStep, DeleteStep>>
    /\ agent.started = <<1, 2>>
    /\ PathJoin(vaultPath, "ideas.md") \in DOMAIN files
    /\ "reviewed" \in SeqToSet(TagsAt(Fs, PathJoin(vaultPath, "ideas.md")))
    /\ PathJoin(vaultPath, "a.md") \in DOMAIN files

(***************************************************************************)
(* The moved note (checked under SpecFrame)                                *)
(***************************************************************************)
\* C28: after a successful note move a note with the tags of the source
\* and with its body (as the cascade leaves it) is at the destination, also
\* when the destination is the path of the source
C28_MovedNoteIsAtDestination ==
    (LastIs("move") /\ last.ok) =>
        /\ MoveDst \in DOMAIN files
        /\ TagsAt(Fs, MoveDst) = TagsAt(pre, MoveSrc)
        /\ files[MoveDst].body \in
              { pre.files[MoveSrc].body,
                MoveReplace(pathToWikiLink(last.params.sourcePath),
                            pathToWikiLink(last.params.destinationPath),
                            pre.files[MoveSrc].body) }

(***************************************************************************)
(* SpecCollide: creates whose file name is taken and moves to a path that  *)
(* is taken.                                                               *)
(***************************************************************************)
CollideLayout ==
    ("a-b.md" :> Note("A B", <<"old">>, "old body"))
      @@ ("c.md" :> Note("C", <<"c">>, "body of c"))

\* "A B", "a-b" and "A  B!" all give the file name a-b.md
CollideCreates ==
    { [title |-> t, content |-> "new body", template |-> "", folder |-> f,
       tags |-> <<"new">>, frontmatter |-> NoFrontmatter] :
        t \in {"A B", "a-b", "A  B!", "D"}, f \in {"", "n"} }

CollideMoves ==
    { [sourcePath |-> m[1], destinationPath |-> m[2], newTitle |-> "",
       updateLinks |-> u] :
        m \in { <<"c.md", "a-b.md">>, <<"a-b.md", "c.md">>, <<"c.md", "e.md">> },
        u \in BOOLEAN }

InitCollide ==
    \E vp \in VaultPaths : InitWith(vp, VaultFs(vp, CollideLayout, <<>>))

NextCollide ==
    \/ \E params \in CollideCreates : DoNoteCreate(params)
    \/ \E params \in CollideMoves : DoNoteMove(params)
    \/ Tick

SpecCollide == InitCollide /\ [][NextCollide]_vars

\* the note that was at path t before the last call can still be read
\* somewhere: its body, its tags and its created stamp
Retrievable(t) ==
    \E q \in DOMAIN files :
        /\ files[q].body = pre.files[t].body
        /\ TagsAt(Fs, q) = TagsAt(pre, t)
        /\ files[q].fm["created"] = pre.files[t].fm["created"]

\* C29: a successful create whose file name was taken, and a successful
\* move to a path that was taken by another note, leave the note that was
\* there retrievable
C29_NoSilentReplacement ==
    /\ (LastIs("create") /\ last.ok /\ last.ret.path \in DOMAIN pre.files)
          => Retrievable(last.ret.path)
    /\ (LastIs("move") /\ last.ok /\ MoveDst # MoveSrc
          /\ MoveDst \in DOMAIN pre.files)
          => Retrievable(MoveDst)

(***************************************************************************)
(* SpecFeed: a note is created or moved, and the path the call returned is *)
(* the path parameter of the next call.                                    *)
(***************************************************************************)
FedTools == {"note_update", "note_deletion", "note_move", "tag_management"}

\* the parameters of the next call of tool, given the returned path; fed
\* keeps the returned path
FedParams(tool, path) ==
    CASE tool = "note_update" ->
           [notePath |-> path, title |-> "T2", content |-> "", tags |-> Omitted,
            frontmatter |-> NoFrontmatter, fed |-> path]
      [] tool = "note_deletion" -> [notePath |-> path, fed |-> path]
      [] tool = "note_move" ->
           [sourcePath |-> path, destinationPath |-> "moved.md",
            newTitle |-> "", updateLinks |-> FALSE, fed |-> path]
      [] tool = "tag_management" ->
           [type |-> "add", tag |-> "fedtag", newTag |-> "",
            notePaths |-> Given(<<path>>), fed |-> path]

\* tool.execute with the path the last create or move returned
DoFed(tool) ==
    /\ steps < MaxSteps
    /\ last.op \in {"create", "move"}
    /\ last.ok
    /\ Commit(TaskTypeOfTool[tool], FedParams(tool, last.ret.path),
              ToolExecute(tool, vaultPath, Fs, now,
                          FedParams(tool, last.ret.path)))
    /\ UNCHANGED agent

FeedMoves ==
    { [sourcePath |-> "a.md", destinationPath |-> "d/c.md", newTitle |-> "",
       updateLinks |-> TRUE] }

InitFeed ==
    \E vp \in VaultPaths : InitWith(vp, VaultFs(vp, TagLayout(<<"x">>), <<>>))

NextFeed ==
    \/ \E params \in FaultCreates : DoNoteCreate(params)
    \/ \E params \in FeedMoves : DoNoteMove(params)
    \/ \E tool \in FedTools : DoFed(tool)
    \/ Tick

SpecFeed == InitFeed /\ [][NextFeed]_vars

\* the last call was given the path the call before it returned
FedCall == last.op # "none" /\ "fed" \in DOMAIN last.params

\* C30: a call given the path a create or a move returned succeeds and
\* has acted on the note that was created or moved
C30_ReturnedPathNamesTheNote ==
    (FedCall /\ last.params.fed \in DOMAIN pre.files) =>
        /\ last.ok
        /\ LastIs("update") => /\ last.params.fed \in DOMAIN files
                               /\ files[last.params.fed].fm["title"] = "T2"
        /\ LastIs("delete") => last.params.fed \notin DOMAIN files
        /\ LastIs("move") =>
              /\ last.params.fed \notin DOMAIN files
              /\ PathJoin(vaultPath, "moved.md") \in DOMAIN files
        /\ LastIs("tag") =>
              /\ last.params.fed \in DOMAIN files
              /\ "fedtag" \in SeqToSet(TagsAt(Fs, last.params.fed))

====
